---- MODULE Spec2Model ----
(***************************************************************************)
(* Verification model of the Aventora chatbot embedding kit.               *)
(*                                                                         *)
(* One page carries one of the three embeddings of the repository:         *)
(*   "element"  an <aventora-chat> element written in the page             *)
(*              (src/public/aventora-chat.js),                             *)
(*   "widget"   the widget.js loader, which creates the element            *)
(*              (src/public/widget.js + src/public/aventora-chat.js),      *)
(*   "uiloader" the lazy loader and its UI instance                        *)
(*              (src/unnamed/part_001 + src/widget/widget-ui.js).          *)
(* Every browser task (an event handler, a timer, a settled fetch with the *)
(* microtasks it triggers) is one action.                                  *)
(***************************************************************************)
EXTENDS Integers, Sequences, FiniteSets, TLC

VARIABLES
  embedding,   \* which embedding the page uses
  scriptUrl,   \* base URL configured on the loader script / element attribute
  chat,        \* the AventoraChat element (fields named as in the class)
  ac,          \* window.AventoraChatbot of widget.js: _ready, _queue, _instance
  wl,          \* widget.js loader: component script, whenDefined, fallback timer
  ui,          \* the lazy loader of part_001 and its AventoraWidgetUIInstance
  env,         \* the host page: the calls it has made, the messages delivered to it
  srv,         \* the example server: its API key, the requests it has answered
  doc          \* the document the lazy loader script runs in: ids, loader global

vars == <<embedding, scriptUrl, chat, ac, wl, ui, env, srv, doc>>

----------------------------------------------------------------------------
(* Bounds of the model *)

\* host-page API calls and user clicks per page life
MaxCalls == 2
\* window "message" events delivered to the page
MaxInbound == 1
\* commands called on window.AventoraWidgetLoader per page life
MaxUiCalls == 1
MaxAttrChanges == 1
MaxRequests == 2
MaxRuns == 3
MaxTags == 2
\* calls of open() and waitForInstance() of window.AventoraWidgetLoader
MaxLoaderCalls == 2

----------------------------------------------------------------------------
(* Values *)

NULL == "null"
\* the value of a property the object does not have
UNDEFINED == "undefined"
\* encodeURIComponent(v): the string of v, escaped; the tokens and language
\* codes here consist of unreserved characters, which are not escaped
EncodeURIComponent(v) ==
  CASE v = NULL -> "null"
    [] v = UNDEFINED -> "undefined"
    [] OTHER -> v

\* A URL is a record; '' is EmptyUrl; a string without a scheme does not parse.
EmptyUrl == [scheme |-> "", host |-> <<>>, port |-> "", path |-> ""]
\* "https://bot.example.com:443/chat"
UrlGood == [scheme |-> "https", host |-> <<"bot", "example", "com">>, port |-> "443", path |-> "/chat"]
\* "bot.example.com" (no scheme: new URL() throws)
UrlBad == [scheme |-> "", host |-> <<"bot", "example", "com">>, port |-> "", path |-> ""]
\* CHATBOT_BASE_URL of a server whose GET /api/config answers a URL
UrlServer == [scheme |-> "https", host |-> <<"srv", "aventora", "app">>, port |-> "", path |-> ""]

ExplicitUrls == {EmptyUrl, UrlGood, UrlBad}

Tenant == "demo"
TokenValue == "t1"

\* postMessage's wildcard target, shaped like an origin
Wildcard == [scheme |-> "*", host |-> <<>>, port |-> ""]
OriginEvil == [scheme |-> "https", host |-> <<"evil", "example">>, port |-> ""]

Parsable(u) == u.scheme # ""

DefaultPort(scheme) == IF scheme = "https" THEN "443" ELSE IF scheme = "http" THEN "80" ELSE ""

\* new URL(u).origin: scheme, host and port, the default port dropped
UrlOrigin(u) ==
  [scheme |-> u.scheme, host |-> u.host,
   port |-> IF u.port = DefaultPort(u.scheme) THEN "" ELSE u.port]

\* try { new URL(u).origin } catch { '*' }
OriginOrWildcard(u) == IF Parsable(u) THEN UrlOrigin(u) ELSE Wildcard

OriginGood == UrlOrigin(UrlGood)
OriginServer == UrlOrigin(UrlServer)

\* window.location of the page that embeds the widget: the hostname as a label
\* sequence, and the port
PageLocation == [hostname |-> <<"www", "shop", "com">>, port |-> ""]

\* options.autoSend as passed by the caller: absent, false or true
AutoSendIn == {"absent", "false", "true"}
\* options.file as passed by the caller: absent, a URL string, or a File object
FileIn == {"absent", "url", "File"}
\* the option objects the host page passes
OptionSet ==
  { [autoSend |-> "absent", file |-> "absent"],
    [autoSend |-> "false",  file |-> "url"],
    [autoSend |-> "true",   file |-> "File"] }

\* JavaScript `x || false`
OrFalse(v) == IF v \in {"absent", "false"} THEN "false" ELSE v
\* JavaScript `x || null`
OrNull(v) == IF v = "absent" THEN NULL ELSE v
\* JavaScript `x !== undefined`
StrictTrue_Defined(v) == IF v = "absent" THEN "false" ELSE "true"

\* JavaScript `x === true`
StrictTrue(v) == IF v = "true" THEN "true" ELSE "false"

\* event.data of an inbound message: an object with a type, or not an object
InboundTypes == {"chatbot_ready", "flutter_ready", "status", "nonobject"}
InboundOrigins == {OriginGood, OriginEvil}
\* no inbound message handled (shaped like a handled message)
NoMessage == [origin |-> Wildcard, type |-> "none"]

----------------------------------------------------------------------------
(* The AventoraChat custom element (src/public/aventora-chat.js) *)

\* constructor: config from the attributes present at construction, initial state
\* the positions getPositionStyles knows
KnownPositions == {"bottom-right", "bottom-left", "top-right", "top-left"}

\* getPositionStyles: the styles of the configured position, of bottom-right
\* for any other value
GetPositionStyles(position) ==
  IF position \in KnownPositions THEN position ELSE "bottom-right"

\* the constructor: the configuration read from the attributes, the state, and
\* init() rendering the styles and the markup
ChatConstruct(attrUrl, attrTenant) ==
  [ exists |-> TRUE,
    connected |-> FALSE,
    listening |-> FALSE,
    attrs |-> [theme |-> NULL, position |-> NULL, language |-> NULL],
    config |-> [tenant |-> attrTenant, chatbotUrl |-> attrUrl, language |-> "en",
                theme |-> "auto", position |-> "bottom-right"],
    styles |-> GetPositionStyles("bottom-right"),
    token |-> NULL,
    loading |-> TRUE,
    error |-> NULL,
    isOpen |-> FALSE,
    isMinimized |-> TRUE,
    panelShown |-> FALSE,
    launcherShown |-> TRUE,
    iframe |-> NULL,
    iframeSrc |-> [base |-> EmptyUrl, token |-> NULL, lang |-> NULL],
    container |-> "loading",
    iframeReady |-> FALSE,
    pendingMessages |-> <<>>,
    chatbotOrigin |-> Wildcard,
    fetch |-> "idle",
    frameLoad |-> "none",
    timers |-> <<>>,
    readers |-> {},
    posted |-> <<>>,
    handledNow |-> NoMessage,
    early |-> {},
    tokenRequests |-> 0,
    configRequests |-> 0,
    flushes |-> 0 ]

\* the element before the loader has created it
ChatAbsent == [ChatConstruct(EmptyUrl, "") EXCEPT !.exists = FALSE]

\* a new task starts: no inbound message handled by it yet
Task(c) == [c EXCEPT !.handledNow = NoMessage]

\* iframe.contentWindow is non-null only while the iframe is in the container
HasContentWindow(c) == c.iframe # NULL /\ c.container = "iframe"

\* the four message shapes of one command
MessageShapes(m, target) ==
  << [type |-> "chatbot_message", text |-> m.text, autoSend |-> m.autoSend, file |-> m.file, target |-> target],
     [type |-> "send_message",    text |-> m.text, autoSend |-> m.autoSend, file |-> m.file, target |-> target],
     [type |-> "set_question",    text |-> m.text, autoSend |-> m.autoSend, file |-> m.file, target |-> target],
     [type |-> "openChatbot",     text |-> m.text, autoSend |-> m.autoSend, file |-> m.file, target |-> target] >>

\* sendToIframe: queue while there is no frame window, else post the shapes
SendToIframe(c, m) ==
  IF ~HasContentWindow(c)
    THEN [c EXCEPT !.pendingMessages = Append(@, m)]
    ELSE [c EXCEPT !.posted = @ \o MessageShapes(m, c.chatbotOrigin)]

\* pendingMessages.forEach(msg => sendToIframe(msg)): the elements present at the start
RECURSIVE ForEachSend(_, _)
ForEachSend(c, msgs) ==
  IF msgs = <<>> THEN c ELSE ForEachSend(SendToIframe(c, Head(msgs)), Tail(msgs))

\* processPendingMessages without `this.pendingMessages = []`
ProcessPendingMessages_KeepsQueue(c) ==
  IF Len(c.pendingMessages) > 0 /\ c.iframeReady
    THEN [ForEachSend(c, c.pendingMessages) EXCEPT
            !.flushes = IF HasContentWindow(c) THEN @ + 1 ELSE @]
    ELSE c

\* processPendingMessages; flushes counts the flushes that reached the frame
ProcessPendingMessages(c) ==
  IF Len(c.pendingMessages) > 0 /\ c.iframeReady
    THEN [ForEachSend(c, c.pendingMessages) EXCEPT
            !.pendingMessages = <<>>,
            !.flushes = IF HasContentWindow(c) THEN @ + 1 ELSE @]
    ELSE c

\* the commands called while the ready flag was not set
NoteEarly(c, text) == IF c.iframeReady THEN c ELSE [c EXCEPT !.early = @ \cup {text}]

\* sendMessage(text, options)
ChatSendMessage(c0, text, options) ==
  LET c == NoteEarly(c0, text)
      message == [text |-> text, autoSend |-> OrFalse(options.autoSend), file |-> OrNull(options.file)]
  IN IF message.file = "File"
       THEN [c EXCEPT !.readers = @ \cup {message}]
       ELSE SendToIframe(c, message)

\* reader.onload of sendMessage: the data URL replaces the File
ChatReaderLoaded(c, message) ==
  SendToIframe([c EXCEPT !.readers = @ \ {message}], [message EXCEPT !.file = "dataURL"])

\* open()
ChatOpen(c) ==
  [c EXCEPT !.isOpen = TRUE, !.isMinimized = FALSE,
            !.panelShown = TRUE, !.launcherShown = FALSE]

\* close()
ChatClose(c) ==
  [c EXCEPT !.isOpen = FALSE, !.isMinimized = TRUE,
            !.panelShown = FALSE, !.launcherShown = TRUE]

\* setQuestion(text, options): open, then sendMessage from a 500 ms timer
ChatSetQuestion(c, text, options) ==
  [ChatOpen(NoteEarly(c, text)) EXCEPT !.timers = Append(@, [text |-> text, options |-> options])]

\* the 500 ms timer of setQuestion
ChatTimerFired(c) ==
  LET t == Head(c.timers)
  IN ChatSendMessage([c EXCEPT !.timers = Tail(@)], t.text,
                     [t.options EXCEPT !.autoSend = OrFalse(@)])

\* the host-page events a public method of the element dispatches before it
\* returns: sendMessage returns from its File branch before its dispatchEvent
ChatEvents(c, call) ==
  CASE call.method = "sendMessage" ->
         IF OrNull(call.options.file) = "File" THEN <<>> ELSE <<"aventora:message-sent">>
    [] call.method = "setQuestion" -> <<"aventora:opened">>
    [] call.method = "open" -> <<"aventora:opened">>
    [] call.method = "close" -> <<"aventora:closed">>

\* one public method of the element, by name
ChatCall(c, call) ==
  CASE call.method = "sendMessage" -> ChatSendMessage(c, call.text, call.options)
    [] call.method = "setQuestion" -> ChatSetQuestion(c, call.text, call.options)
    [] call.method = "open" -> ChatOpen(c)
    [] call.method = "close" -> ChatClose(c)

\* fetchToken up to its first await, and setupMessageListener
ChatConnected(c) ==
  [c EXCEPT !.connected = TRUE, !.listening = TRUE,
            !.loading = TRUE, !.error = NULL, !.container = "loading",
            !.fetch = "token", !.tokenRequests = @ + 1]

\* createIframe without `this.chatbotOrigin = new URL(chatbotUrl).origin`
ChatCreateIframe_KeepsWildcard(c, chatbotUrl) ==
  [c EXCEPT !.iframe = "iframe",
            !.iframeSrc = [base |-> chatbotUrl, token |-> EncodeURIComponent(c.token),
                           lang |-> EncodeURIComponent(c.config.language)],
            !.container = "iframe",
            !.frameLoad = "pending",
            !.fetch = "done"]

\* createIframe after getChatbotUrl has answered: origin, frame element, container
ChatCreateIframe(c, chatbotUrl) ==
  [c EXCEPT !.chatbotOrigin = OriginOrWildcard(chatbotUrl),
            !.iframe = "iframe",
            !.iframeSrc = [base |-> chatbotUrl, token |-> EncodeURIComponent(c.token),
                           lang |-> EncodeURIComponent(c.config.language)],
            !.container = "iframe",
            !.frameLoad = "pending",
            !.fetch = "done"]

\* what createIframe writes to the console: the chatbot URL, and the frame URL
\* with its token parameter
ChatCreateIframeLog(c, chatbotUrl) ==
  << [label |-> "Using chatbot URL:", value |-> [base |-> chatbotUrl, token |-> NULL]],
     [label |-> "Iframe URL:", value |-> [base |-> chatbotUrl, token |-> c.token]] >>

\* createIframe up to `await getChatbotUrl()`: explicit URL, or GET /api/config
ChatCreateIframeStart(c) ==
  IF c.token = NULL THEN [c EXCEPT !.fetch = "done"]
  ELSE IF c.config.chatbotUrl # EmptyUrl THEN ChatCreateIframe(c, c.config.chatbotUrl)
  ELSE [c EXCEPT !.fetch = "config", !.configRequests = @ + 1]

\* the token response: 200 with or without a token, non-2xx, or a rejected fetch
TokenOutcomes == {"ok", "okNoToken", "errorBody", "errorNoBody", "network"}

TokenErrorMessage(outcome) ==
  CASE outcome = "errorBody" -> "bad key"
    [] outcome = "errorNoBody" -> "Failed to generate token"
    [] outcome = "network" -> "Failed to fetch"

ChatTokenResponse(c, outcome) ==
  IF outcome \in {"ok", "okNoToken"}
    THEN ChatCreateIframeStart(
           [c EXCEPT !.token = IF outcome = "ok" THEN TokenValue ELSE NULL,
                     !.loading = FALSE])
    ELSE [c EXCEPT !.error = TokenErrorMessage(outcome), !.loading = FALSE,
                   !.container = "error", !.fetch = "done"]

\* the labels that contain the text 'localhost'
LocalhostLabels == {"localhost", "mylocalhost"}
\* the hostname 127.0.0.1
Loopback == <<"127", "0", "0", "1">>

\* the fallback of getChatbotUrl, from window.location and the tenant:
\* hostname.includes('localhost') || hostname.includes('127.0.0.1')
IncludesLocalhost(hostname) ==
  \/ \E i \in 1..Len(hostname) : hostname[i] \in LocalhostLabels
  \/ \E i \in 1..(Len(hostname) - 3) : SubSeq(hostname, i, i + 3) = Loopback

LastTwo(hostname) == SubSeq(hostname, Len(hostname) - 1, Len(hostname))

\* the fallback without its development branch
FallbackUrl_NoLocalhost(hostname, port, tenant) ==
  IF Len(hostname) >= 2
    THEN [scheme |-> "https", host |-> <<tenant>> \o LastTwo(hostname), port |-> "", path |-> ""]
    ELSE [scheme |-> "https", host |-> <<tenant, "aventora", "app">>, port |-> "", path |-> ""]

FallbackUrl(hostname, port, tenant) ==
  IF IncludesLocalhost(hostname)
    THEN LET p == IF port = "" THEN "3000" ELSE port
         IN IF hostname = <<"localhost">> \/ hostname = Loopback
              THEN [scheme |-> "http", host |-> <<"localhost">>, port |-> p, path |-> ""]
              ELSE [scheme |-> "http", host |-> <<tenant, "localhost">>, port |-> p, path |-> ""]
    ELSE IF Len(hostname) >= 2
      THEN [scheme |-> "https", host |-> <<tenant>> \o LastTwo(hostname), port |-> "", path |-> ""]
      ELSE [scheme |-> "https", host |-> <<tenant, "aventora", "app">>, port |-> "", path |-> ""]

\* the /api/config response seen by getChatbotUrl
ConfigOutcomes == {"okUrl", "okNoUrl", "notOk", "network", "malformed"}

ChatConfigResponse(c, outcome, serverUrl, hostname, port) ==
  ChatCreateIframe(c, IF outcome = "okUrl" THEN serverUrl
                      ELSE FallbackUrl(hostname, port, c.config.tenant))

\* the host-page events the element's loading handlers dispatch: iframe.onload
\* one, the catch block of fetchToken and iframe.onerror none
ChatHandlerEvents(handler) ==
  CASE handler = "iframe.onload" -> <<"aventora:iframe-ready">>
    [] handler = "fetchToken.catch" -> <<>>
    [] handler = "iframe.onerror" -> <<>>

\* iframe.onload
ChatIframeOnload(c) ==
  ProcessPendingMessages([c EXCEPT !.iframeReady = TRUE, !.frameLoad = "loaded"])

\* iframe.onerror: updateErrorState replaces the container's content
ChatIframeOnerror(c) ==
  [c EXCEPT !.error = "Failed to load chatbot", !.container = "error", !.frameLoad = "error"]

\* handleIframeMessage
ChatHandleIframeMessage(c, origin, type) ==
  LET h == [c EXCEPT !.handledNow = [origin |-> origin, type |-> type]]
  IN IF type \in {"chatbot_ready", "flutter_ready"}
       THEN ProcessPendingMessages([h EXCEPT !.iframeReady = TRUE])
       ELSE h

\* messageHandler: the origin check, then objects only
ChatMessageHandler(c, origin, type) ==
  IF c.chatbotOrigin # Wildcard /\ origin # c.chatbotOrigin THEN c
  ELSE IF type = "nonobject" THEN c
  ELSE ChatHandleIframeMessage(c, origin, type)

----------------------------------------------------------------------------
(* The widget.js loader and window.AventoraChatbot (src/public/widget.js) *)

ObservedAttributes == {"tenant", "theme", "position", "language"}

\* widget.setAttribute(name, value) on the created element: attributeChangedCallback
\* runs for observed attributes only
\* updateStyles: the text of the style element is replaced
UpdateStyles(c) == [c EXCEPT !.styles = GetPositionStyles(c.config.position)]

\* an attribute change that renders the shadow root again
ChatSetAttribute_Rerenders(c, name, value) ==
  LET tracked == name \in DOMAIN c.attrs
      old == IF tracked THEN c.attrs[name] ELSE NULL
      c1 == IF tracked THEN [c EXCEPT !.attrs[name] = value] ELSE c
  IN IF name \in ObservedAttributes /\ old # value
       THEN CASE name \in {"tenant", "language"} -> [c1 EXCEPT !.config[name] = value]
              [] name \in {"theme", "position"} ->
                   [UpdateStyles([c1 EXCEPT !.config[name] = value]) EXCEPT
                      !.iframe = NULL, !.container = "loading"]
              [] OTHER -> c1
       ELSE c1

ChatSetAttribute(c, name, value) ==
  LET tracked == name \in DOMAIN c.attrs
      old == IF tracked THEN c.attrs[name] ELSE NULL
      c1 == IF tracked THEN [c EXCEPT !.attrs[name] = value] ELSE c
  IN IF name \in ObservedAttributes /\ old # value
       THEN CASE name \in {"tenant", "language"} -> [c1 EXCEPT !.config[name] = value]
              [] name \in {"theme", "position"} ->
                   UpdateStyles([c1 EXCEPT !.config[name] = value])
              [] OTHER -> c1
       ELSE c1

\* document.createElement('aventora-chat'), the setAttribute calls, appendChild
ChatCreatedByLoader(config) ==
  LET c0 == ChatConstruct(EmptyUrl, "")
      c1 == ChatSetAttribute(c0, "tenant", config.tenant)
      c1t == ChatSetAttribute(c1, "theme", "auto")
      c1p == ChatSetAttribute(c1t, "position", "bottom-right")
      c1l == ChatSetAttribute(c1p, "language", "en")
      c2 == IF config.chatbotUrl # EmptyUrl
              THEN ChatSetAttribute(c1l, "chatbot-url", config.chatbotUrl)
              ELSE c1l
  IN ChatConnected(c2)

\* _queue.forEach(item => instance[item.method].apply(instance, item.args))
RECURSIVE ReplayQueue(_, _)
ReplayQueue(c, queue) ==
  IF queue = <<>> THEN c ELSE ReplayQueue(ChatCall(c, Head(queue)), Tail(queue))

\* createWidget without `window.AventoraChatbot._queue = []`
QueueAfterReplay_KeepsQueue(queue) == queue

\* what createWidget leaves in _queue
QueueAfterReplay(queue) == <<>>

\* the methods and texts of a sequence of calls
RECURSIVE Texts(_)
Texts(queue) ==
  IF queue = <<>> THEN <<>>
  ELSE <<[method |-> Head(queue).method, text |-> Head(queue).text]>> \o Texts(Tail(queue))

\* _ready, _queue, _instance; and the calls queued and replayed so far
AcInitial ==
  [ready |-> FALSE, queue |-> <<>>, instance |-> FALSE,
   queued |-> <<>>, replayed |-> <<>>]

\* config.widgetUrl, as path segments: the default made from the loader's own
\* src, and a data-widget-url of the host page
ComponentUrl == <<"cdn", "aventora-chat.js">>
CustomComponentUrl == <<"assets", "chat.min.js">>

\* script[src*="aventora-chat.js"]
MatchesComponentSelector(src) == \E k \in 1..Len(src) : src[k] = "aventora-chat.js"

\* tags: the script tags loadComponent has appended, each with its src and state
WlInitial(url) ==
  [config |-> [tenant |-> Tenant, chatbotUrl |-> url, widgetUrl |-> ComponentUrl],
   tags |-> <<>>, defined |-> FALSE, whenDefined |-> FALSE, fallbackTimer |-> FALSE,
   created |-> 0, createdWith |-> EmptyUrl]

\* createWidget: the element (the existing one, or a new one) and the replay
CreateWidgetChat ==
  LET widget == IF chat.exists THEN Task(chat) ELSE ChatCreatedByLoader(wl.config)
  IN ReplayQueue(widget, ac.queue)

\* createWidget: _instance, _ready and _queue
CreateWidgetAc ==
  [ac EXCEPT !.instance = TRUE, !.ready = TRUE,
             !.replayed = @ \o Texts(ac.queue),
             !.queue = QueueAfterReplay(@)]

\* createWidget: bookkeeping of the elements created and of the URL they were given
CreateWidgetWl(w) ==
  IF chat.exists THEN w
  ELSE [w EXCEPT !.created = @ + 1, !.createdWith = wl.config.chatbotUrl]

\* the commands the host page sends: text is the number of the command
Commands(n) ==
  { [method |-> m, text |-> n, options |-> o] : m \in {"sendMessage", "setQuestion"}, o \in OptionSet }

\* open() and close(), also the clicks on the launcher and on the minimize button
Toggles ==
  { [method |-> m, text |-> 0, options |-> [autoSend |-> "absent", file |-> "absent"]] :
    m \in {"open", "close"} }

\* AventoraChatbot.sendMessage / setQuestion / open / close
AcCall(call) ==
  /\ embedding = "widget"
  /\ Len(env.made) < MaxCalls
  /\ call \in Commands(Len(env.made) + 1) \cup Toggles
  /\ env' = [env EXCEPT !.made = Append(@, call.options)]
  /\ IF ac.ready /\ ac.instance
       THEN /\ chat' = ChatCall(Task(chat), call)
            /\ ac' = ac
       ELSE /\ ac' = [ac EXCEPT !.queue = Append(@, call),
                                !.queued = Append(@, [method |-> call.method, text |-> call.text])]
            /\ chat' = chat
  /\ UNCHANGED <<embedding, scriptUrl, wl, ui, srv, doc>>

\* loadComponent: unless a component script tag is already in the document
LoadComponent(w) ==
  IF \E k \in DOMAIN w.tags : MatchesComponentSelector(w.tags[k].src)
    THEN w
    ELSE [w EXCEPT !.tags = Append(@, [src |-> w.config.widgetUrl, state |-> "loading"])]

\* the loader's own start (document ready or DOMContentLoaded)
WlLoadComponent ==
  /\ embedding = "widget"
  /\ wl.tags = <<>>
  /\ wl' = LoadComponent(wl)
  /\ UNCHANGED <<embedding, scriptUrl, chat, ac, env, ui, srv, doc>>

\* AventoraChatbot.init(customConfig): merge the config, then loadComponent
AcInit(url) ==
  /\ embedding = "widget"
  /\ wl' = LoadComponent([wl EXCEPT !.config.chatbotUrl = IF url = EmptyUrl THEN @ ELSE url])
  /\ Len(wl'.tags) <= MaxTags
  /\ UNCHANGED <<embedding, scriptUrl, chat, ac, env, ui, srv, doc>>

\* script.onload -> initializeComponent: createWidget at once when the element is
\* defined, else wait for whenDefined and for the 5 s fallback timer
WlScriptOnload(k, defined) ==
  /\ embedding = "widget"
  /\ k \in DOMAIN wl.tags
  /\ wl.tags[k].state = "loading"
  /\ wl.defined => defined
  /\ IF defined
       THEN /\ chat' = CreateWidgetChat
            /\ ac' = CreateWidgetAc
            /\ wl' = CreateWidgetWl([wl EXCEPT !.tags[k].state = "loaded", !.defined = TRUE])
       ELSE /\ wl' = [wl EXCEPT !.tags[k].state = "loaded",
                                !.whenDefined = TRUE, !.fallbackTimer = TRUE]
            /\ UNCHANGED <<chat, ac>>
  /\ UNCHANGED <<embedding, scriptUrl, env, ui, srv, doc>>

\* script.onerror: only logs
WlScriptOnerror(k) ==
  /\ embedding = "widget"
  /\ k \in DOMAIN wl.tags
  /\ wl.tags[k].state = "loading"
  /\ wl' = [wl EXCEPT !.tags[k].state = "failed"]
  /\ UNCHANGED <<embedding, scriptUrl, chat, ac, env, ui, srv, doc>>

\* customElements.whenDefined('aventora-chat').then(createWidget)
WlWhenDefined ==
  /\ embedding = "widget"
  /\ wl.whenDefined
  /\ chat' = CreateWidgetChat
  /\ ac' = CreateWidgetAc
  /\ wl' = CreateWidgetWl([wl EXCEPT !.defined = TRUE, !.whenDefined = FALSE])
  /\ UNCHANGED <<embedding, scriptUrl, env, ui, srv, doc>>

\* the 5 s fallback timer of initializeComponent
WlFallbackTimer ==
  /\ embedding = "widget"
  /\ wl.fallbackTimer
  /\ IF wl.defined
       THEN /\ chat' = CreateWidgetChat
            /\ ac' = CreateWidgetAc
            /\ wl' = CreateWidgetWl([wl EXCEPT !.fallbackTimer = FALSE])
       ELSE /\ wl' = [wl EXCEPT !.fallbackTimer = FALSE]
            /\ UNCHANGED <<chat, ac>>
  /\ UNCHANGED <<embedding, scriptUrl, env, ui, srv, doc>>

----------------------------------------------------------------------------
(* The UI instance of the lazy loader (src/widget/widget-ui.js).            *)
(* Commands reach the frame through sendToFlutter only. The focus_input and *)
(* click_input housekeeping (focusInput and the focus timers of open, of    *)
(* iframe.onload and of setupIframeCommunication) uses the same function,   *)
(* carries no command and is left out.                                      *)

\* the launcher click, as a call carried by a promise chain
ClickCall == [method |-> "click", text |-> 0, options |-> [autoSend |-> "absent", file |-> "absent"]]
\* the promise returned by AventoraWidgetLoader.open()
LoaderOpenCall == [method |-> "open", text |-> 0, options |-> [autoSend |-> "absent", file |-> "absent"]]
\* the promise returned by AventoraWidgetLoader.waitForInstance()
WaitCall == [method |-> "waitForInstance", text |-> 0, options |-> [autoSend |-> "absent", file |-> "absent"]]
\* the loader's own loadConfig() at start
InitCall == [method |-> "init", text |-> 0, options |-> [autoSend |-> "absent", file |-> "absent"]]

\* AventoraWidgetUIInstance(options): the state after construction; listeners is
\* the origin each installed message listener checks, timers the commands
\* waiting for their 500 ms retry, posted the set of messages posted to the frame;
\* panelOpen and launcherShown are the 'open' class of options.elements.chatPanel
\* and the display of options.elements.launcherButton, which the loader made
InstInitial ==
  [ token |-> NULL,
    chatbotBaseUrl |-> EmptyUrl,
    isOpen |-> FALSE,
    panelOpen |-> FALSE,
    launcherShown |-> TRUE,
    iframeSrc |-> [base |-> EmptyUrl, token |-> NULL, lang |-> NULL],
    isLoading |-> FALSE,
    flutterAppLoaded |-> FALSE,
    iframe |-> NULL,
    container |-> "loading",
    errorText |-> NULL,
    sendToFlutter |-> FALSE,
    chatbotOrigin |-> Wildcard,
    listeners |-> <<>>,
    fetch |-> "idle",
    frameLoad |-> "none",
    timers |-> {},
    posted |-> {},
    handledNow |-> NoMessage ]

\* a new task starts: no inbound message handled by it yet
InstTask(i) == [i EXCEPT !.handledNow = NoMessage]

\* setupIframeCommunication: origin, message listener, sendToFlutter
InstSetupIframeCommunication(i, chatbotBaseUrl) ==
  [i EXCEPT !.chatbotOrigin = OriginOrWildcard(chatbotBaseUrl),
            !.listeners = Append(@, OriginOrWildcard(chatbotBaseUrl)),
            !.sendToFlutter = TRUE]

\* a message of the instance, before sendToFlutter gives it its target
UiMessage(type, text, autoSend, file) ==
  [type |-> type, text |-> text, autoSend |-> autoSend, file |-> file, target |-> Wildcard]

\* sendToFlutter(message): nothing without a frame window, else postMessage
InstSendToFlutter(i, message) ==
  IF i.iframe = NULL \/ i.container # "iframe"
    THEN i
    ELSE [i EXCEPT !.posted = @ \cup {[message EXCEPT !.target = i.chatbotOrigin]}]

\* the branch of sendMessage/setQuestion/setFile taken without sendToFlutter:
\* set communication up and retry after 500 ms if a frame exists, else give up
InstNotReady(i, call) ==
  IF i.iframe # NULL /\ i.chatbotBaseUrl # EmptyUrl
    THEN [InstSetupIframeCommunication(i, i.chatbotBaseUrl) EXCEPT
            !.timers = @ \cup {call}]
    ELSE i

\* sendMessage(text, options): options.file is not read
InstSendMessage(i, call) ==
  IF ~i.sendToFlutter THEN InstNotReady(i, call)
  ELSE IF StrictTrue(call.options.autoSend) = "true"
    THEN InstSendToFlutter(
           InstSendToFlutter(i, UiMessage("send_message", call.text, "true", NULL)),
           UiMessage("chatbot_message", call.text, "true", NULL))
    ELSE InstSendToFlutter(i, UiMessage("set_question", call.text, "false", NULL))

\* setQuestion(text, options)
InstSetQuestion(i, call) ==
  IF ~i.sendToFlutter THEN InstNotReady(i, call)
  ELSE InstSendToFlutter(i,
         UiMessage("set_question", call.text, StrictTrue(call.options.autoSend), NULL))

\* setFile(fileId, options): fileId (kept in options.file) is posted as it is
InstSetFile(i, call) ==
  IF ~i.sendToFlutter THEN InstNotReady(i, call)
  ELSE InstSendToFlutter(i,
         UiMessage("set_file", call.text, StrictTrue(call.options.autoSend), call.options.file))

\* the host-page events a method of the instance dispatches: open and close
\* dispatch one, sendMessage none
InstEvents(i, method) ==
  CASE method = "open" -> <<"aventora:widget:opened">>
    [] method = "close" -> <<"aventora:widget:closed">>
    [] OTHER -> <<>>

\* what a command method of the instance returns: false from the branch taken
\* without sendToFlutter, true after its sendToFlutter calls whatever they returned
InstReturns(i, call) == i.sendToFlutter

\* one command method of the instance, by name
InstCall(i, call) ==
  CASE call.method = "sendMessage" -> InstSendMessage(i, call)
    [] call.method = "setQuestion" -> InstSetQuestion(i, call)
    [] call.method = "setFile" -> InstSetFile(i, call)

\* loadFlutterApp without `if (this.isLoading) return`
InstLoadFlutterApp_NoGuard(i) == [i EXCEPT !.isLoading = TRUE, !.fetch = "pending"]

\* loadFlutterApp up to Promise.all([getChatbotBaseUrl(), getToken()])
InstLoadFlutterApp(i) ==
  IF i.isLoading THEN i ELSE [i EXCEPT !.isLoading = TRUE, !.fetch = "pending"]

\* open() that does not look at flutterAppLoaded
InstOpen_AlwaysLoads(i) ==
  InstLoadFlutterApp([i EXCEPT !.isOpen = TRUE, !.panelOpen = TRUE, !.launcherShown = FALSE])

\* open()
InstOpen(i) ==
  IF ~i.flutterAppLoaded
    THEN InstLoadFlutterApp([i EXCEPT !.isOpen = TRUE, !.panelOpen = TRUE, !.launcherShown = FALSE])
    ELSE [i EXCEPT !.isOpen = TRUE, !.panelOpen = TRUE, !.launcherShown = FALSE]

\* close() that also tears the frame down
InstClose_DropsFrame(i) ==
  [i EXCEPT !.isOpen = FALSE, !.panelOpen = FALSE, !.launcherShown = TRUE,
            !.iframe = NULL, !.flutterAppLoaded = FALSE]

\* close()
InstClose(i) == [i EXCEPT !.isOpen = FALSE, !.panelOpen = FALSE, !.launcherShown = TRUE]

\* showError(message): the container's content is replaced by the message, a
\* frame in it is detached
InstShowError(i, message) == [i EXCEPT !.container = "error", !.errorText = message]

\* this.config.language || 'en': the loader's config object has no language key
InstLanguage == "en"

\* loadFlutterAppViaIframe
InstLoadFlutterAppViaIframe(i, chatbotBaseUrl, token) ==
  [i EXCEPT !.chatbotBaseUrl = chatbotBaseUrl, !.token = token,
            !.iframeSrc = [base |-> chatbotBaseUrl, token |-> EncodeURIComponent(token),
                           lang |-> EncodeURIComponent(InstLanguage)],
            !.iframe = "iframe", !.container = "iframe", !.errorText = NULL,
            !.frameLoad = "pending"]

\* what loadFlutterAppViaIframe writes to the console: the base URL, and the
\* src of the frame it stored
InstLoadFlutterAppViaIframeLog(chatbotBaseUrl, token) ==
  << [label |-> "Loading Flutter app via iframe from:",
      value |-> [base |-> chatbotBaseUrl, token |-> NULL]],
     [label |-> "Iframe created and stored:",
      value |-> [base |-> chatbotBaseUrl, token |-> token]] >>

\* what /api/config and /api/chatbot-token answer to the instance: a base URL
\* and a token, no base URL, or no token (a non-2xx token response with the
\* body {error: "bad key"})
UiFetchOutcomes == {"ok", "noUrl", "tokenFail"}
\* and a 2xx token response whose body has no token
UiFetchOutcomesAll == UiFetchOutcomes \cup {"okNoToken"}

\* the messages of showError
UiLoadErrorText == "Failed to load chatbot. Please try again."
UiFrameErrorText == "Failed to load chatbot. Please check that the chatbot server is running."

\* the then/catch of loadFlutterApp; getChatbotBaseUrl knows only /api/config
InstFetchSettled(i, outcome, serverUrl) ==
  LET j == [i EXCEPT !.fetch = "idle"]
  IN IF outcome \in {"ok", "okNoToken"}
       THEN InstLoadFlutterAppViaIframe(j, serverUrl,
                                        IF outcome = "ok" THEN TokenValue ELSE UNDEFINED)
       ELSE [InstShowError(j, UiLoadErrorText) EXCEPT !.isLoading = FALSE]

\* iframe.onload
InstIframeOnload(i) ==
  [InstSetupIframeCommunication(i, i.chatbotBaseUrl) EXCEPT
     !.flutterAppLoaded = TRUE, !.isLoading = FALSE, !.frameLoad = "loaded"]

\* iframe.onerror
InstIframeOnerror(i) ==
  [InstShowError(i, UiFrameErrorText) EXCEPT !.isLoading = FALSE, !.frameLoad = "error"]

\* the 500 ms retry timer of a command fires
InstTimerFired(i0, call) ==
  LET i == [i0 EXCEPT !.timers = @ \ {call}]
  IN IF i.sendToFlutter THEN InstCall(i, call) ELSE i

\* the message listeners: each checks the origin it was set up with, and
\* republishes objects as aventora:widget:message
InstMessageHandler(i, origin, type) ==
  IF /\ \E k \in DOMAIN i.listeners : i.listeners[k] = Wildcard \/ i.listeners[k] = origin
     /\ type # "nonobject"
    THEN [i EXCEPT !.handledNow = [origin |-> origin, type |-> type]]
    ELSE i

----------------------------------------------------------------------------
(* The lazy loader and window.AventoraWidgetLoader (src/unnamed/part_001) *)

\* a promise chain of the loader: the call it will make on the instance, and
\* what it waits for: its /api/config fetch, its script tag, its 200 ms timer
Chain(call, stage) == [call |-> call, stage |-> stage]

\* the loader after it has run: config from the script's data attributes, the
\* state flags, whether widget-ui.js has defined window.AventoraWidgetUI, the
\* chains in flight (loadConfig() is called at start), the error panel; created
\* counts the instances AventoraWidgetUI.init has constructed (each renders the
\* panel and adds a keydown handler to the document), resolved holds the values
\* the promises of open() and waitForInstance() were resolved with,
\* loaderCalls counts the calls of these two functions
UiInitial(url) ==
  [ config |-> [tenant |-> Tenant, chatbotBaseUrl |-> url],
    configLoaded |-> FALSE,
    uiLoaded |-> FALSE,
    uiInstance |-> FALSE,
    uiDefined |-> FALSE,
    chains |-> {Chain(InitCall, "config")},
    loaderError |-> FALSE,
    created |-> 0,
    resolved |-> {},
    loaderCalls |-> 0,
    inst |-> InstInitial ]

\* a page without the lazy loader
UiAbsent == [UiInitial(EmptyUrl) EXCEPT !.chains = {}]

\* the instance AventoraWidgetUI.init constructs on the loader's elements, which
\* keep the class and the display they have
UiNewInstance(u) ==
  [InstInitial EXCEPT !.panelOpen = u.inst.panelOpen, !.launcherShown = u.inst.launcherShown]

\* initializeUI without its uiInstance guard
UiInitializeUI_NoGuard(u) ==
  [u EXCEPT !.uiInstance = TRUE, !.inst = UiNewInstance(u), !.created = @ + 1]

\* initializeUI: AventoraWidgetUI.init creates the instance unless one exists
UiInitializeUI(u) ==
  IF u.uiInstance THEN u
  ELSE [u EXCEPT !.uiInstance = TRUE, !.inst = UiNewInstance(u), !.created = @ + 1]

\* the promise of open() or waitForInstance() is resolved with a value
UiResolve(u, call, value) ==
  [u EXCEPT !.resolved = @ \cup {<<call.method, value>>}]

\* the end of a chain: the launcher's open(), the command of
\* waitForInstance().then(instance => instance[method](...)), or the value
\* handed to the caller of open() / waitForInstance()
UiContinue(u, call) ==
  CASE call.method = "init" -> u
    [] call.method = "click" -> [u EXCEPT !.inst = InstOpen(@)]
    [] call.method \in {"open", "waitForInstance"} ->
         UiResolve(u, call, IF u.uiInstance THEN "instance" ELSE NULL)
    [] OTHER -> [u EXCEPT !.inst = InstCall(@, call)]

\* loadUI(): the instance if loaded, initializeUI if the global exists, else a
\* new script tag for widget-ui.js
UiLoadUI(u, call) ==
  IF u.uiLoaded THEN UiContinue(u, call)
  ELSE IF u.uiDefined THEN UiContinue(UiInitializeUI([u EXCEPT !.uiLoaded = TRUE]), call)
  ELSE [u EXCEPT !.chains = @ \cup {Chain(call, "script")}]

\* loadUI() of a chain that runs after another chain of the same task: the
\* uiInstance it reads is the one assigned before the task, because
\* initializeUI's then() assigns it after the chains queued earlier have run
UiLoadUIInTask(u, call, assigned) ==
  IF u.uiLoaded
    THEN UiResolve(u, call, IF assigned THEN "instance" ELSE NULL)
    ELSE UiLoadUI(u, call)

\* loadConfig().then(() => loadUI()): a new fetch unless the config is loaded
UiLoadConfigThenUI(u, call) ==
  IF u.configLoaded THEN UiLoadUI(u, call)
  ELSE [u EXCEPT !.chains = @ \cup {Chain(call, "config")}]

\* what /api/config answers to the loader
LoaderConfigOutcomes == {"okUrl", "network"}

\* loadConfig's then/catch, and the chain that waited for it
UiConfigSettled(u, chain, outcome, serverUrl) ==
  LET v == [u EXCEPT !.chains = @ \ {chain},
                     !.configLoaded = TRUE,
                     !.config.chatbotBaseUrl = IF outcome = "okUrl" THEN serverUrl ELSE @]
  IN IF chain.call.method = "init" THEN v ELSE UiLoadUI(v, chain.call)

\* a rejected chain whose click handler has no catch
UiRejected_NoCatch(u, chain) ==
  [u EXCEPT !.chains = @ \ {chain}]

\* a chain is rejected: the click shows the error panel and hides the launcher,
\* a command's waitForInstance() has no catch
UiRejected(u, chain) ==
  IF chain.call.method = "click"
    THEN [u EXCEPT !.chains = @ \ {chain}, !.loaderError = TRUE,
                   !.inst.panelOpen = TRUE, !.inst.launcherShown = FALSE]
    ELSE [u EXCEPT !.chains = @ \ {chain}]

\* script.onload of widget-ui.js: the script has run; the 200 ms timer starts
UiScriptLoaded(u, chain) ==
  [u EXCEPT !.uiDefined = TRUE,
            !.chains = (@ \ {chain}) \cup {Chain(chain.call, "timer")}]

\* the 200 ms timer of script.onload
UiScriptTimer(u, chain) ==
  IF u.uiDefined
    THEN UiContinue(UiInitializeUI([u EXCEPT !.chains = @ \ {chain}, !.uiLoaded = TRUE]),
                    chain.call)
    ELSE UiRejected(u, chain)

\* waitForInstance(): the instance, or the config and UI chain; with uiLoaded
\* set the instance exists by the end of the task that set it
UiWaitForInstance(u, call) ==
  IF u.uiInstance THEN UiContinue(u, call)
  ELSE IF ~u.uiLoaded THEN UiLoadConfigThenUI(u, call)
  ELSE u

\* AventoraWidgetLoader.open(): launcherButton.click() runs the click handler,
\* then a second loadConfig().then(() => loadUI()) gives the returned promise
UiLoaderOpenCalled(u) ==
  IF u.configLoaded
    THEN UiLoadUIInTask(UiLoadUI(u, ClickCall), LoaderOpenCall, u.uiInstance)
    ELSE [u EXCEPT !.chains = @ \cup {Chain(ClickCall, "config"),
                                      Chain(LoaderOpenCall, "config")}]

\* AventoraWidgetLoader.sendMessage / setQuestion / setFile
UiLoaderCall(u, call) ==
  IF u.uiInstance THEN [u EXCEPT !.inst = InstCall(@, call)]
  ELSE UiWaitForInstance(u, call)

\* the commands of the loader; setFile's first argument, fileId, is kept in
\* options.file: a string or a File
UiCommands(n) ==
  { [method |-> "sendMessage", text |-> n, options |-> o] : o \in {p \in OptionSet : p.file # "url"} } \cup
  { [method |-> m, text |-> n, options |-> o] :
      m \in {"setQuestion", "setFile"}, o \in {p \in OptionSet : p.file # "absent"} }

\* a command waits for the instance or for its retry
UiCommandInFlight(u) ==
  \/ \E c \in u.chains : c.call.text # 0
  \/ u.inst.timers # {}

HasUi == embedding = "uiloader"

\* a command called on window.AventoraWidgetLoader, once the command called
\* before it has stopped waiting
UiHostCall(call) ==
  /\ HasUi
  /\ Len(env.made) < MaxUiCalls
  /\ ~UiCommandInFlight(ui)
  /\ call \in UiCommands(Len(env.made) + 1)
  /\ env' = [env EXCEPT !.made = Append(@, call.options)]
  /\ ui' = UiLoaderCall([ui EXCEPT !.inst = InstTask(@)], call)
  /\ UNCHANGED <<embedding, scriptUrl, chat, ac, wl, srv, doc>>

\* a click on the launcher button (visible while the panel is closed)
UiLauncherClick ==
  /\ HasUi
  /\ ui.inst.launcherShown
  /\ ui' = UiLoadConfigThenUI([ui EXCEPT !.inst = InstTask(@)], ClickCall)
  /\ UNCHANGED <<embedding, scriptUrl, chat, ac, wl, env, srv, doc>>

\* open() called on the instance by the host page
\* (AventoraWidgetLoader.getInstance().open())
UiInstanceOpen ==
  /\ HasUi
  /\ ui.uiInstance
  /\ ui' = [ui EXCEPT !.inst = InstOpen(InstTask(@))]
  /\ UNCHANGED <<embedding, scriptUrl, chat, ac, wl, env, srv, doc>>

\* AventoraWidgetLoader.open() called by the host page
UiLoaderOpen ==
  /\ HasUi
  /\ ui.loaderCalls < MaxLoaderCalls
  /\ ui' = UiLoaderOpenCalled([ui EXCEPT !.inst = InstTask(@), !.loaderCalls = @ + 1])
  /\ UNCHANGED <<embedding, scriptUrl, chat, ac, wl, env, srv, doc>>

\* AventoraWidgetLoader.waitForInstance() called by the host page
UiLoaderWaitForInstance ==
  /\ HasUi
  /\ ui.loaderCalls < MaxLoaderCalls
  /\ ui' = UiWaitForInstance([ui EXCEPT !.inst = InstTask(@), !.loaderCalls = @ + 1], WaitCall)
  /\ UNCHANGED <<embedding, scriptUrl, chat, ac, wl, env, srv, doc>>

\* a click on the close button, or the Escape key
UiCloseClick ==
  /\ HasUi
  /\ ui.uiInstance /\ ui.inst.isOpen
  /\ ui' = [ui EXCEPT !.inst = InstClose(InstTask(@))]
  /\ UNCHANGED <<embedding, scriptUrl, chat, ac, wl, env, srv, doc>>

\* a /api/config fetch of the loader settles
UiConfigResponse(chain, outcome) ==
  /\ HasUi
  /\ chain \in ui.chains /\ chain.stage = "config"
  /\ ui' = UiConfigSettled([ui EXCEPT !.inst = InstTask(@)], chain, outcome, env.server)
  /\ UNCHANGED <<embedding, scriptUrl, chat, ac, wl, env, srv, doc>>

\* a widget-ui.js script tag loads
UiScriptOnload(chain) ==
  /\ HasUi
  /\ chain \in ui.chains /\ chain.stage = "script"
  /\ ui' = UiScriptLoaded([ui EXCEPT !.inst = InstTask(@)], chain)
  /\ UNCHANGED <<embedding, scriptUrl, chat, ac, wl, env, srv, doc>>

\* a widget-ui.js script tag fails to load
UiScriptOnerror(chain) ==
  /\ HasUi
  /\ chain \in ui.chains /\ chain.stage = "script"
  /\ ui' = UiRejected([ui EXCEPT !.inst = InstTask(@)], chain)
  /\ UNCHANGED <<embedding, scriptUrl, chat, ac, wl, env, srv, doc>>

\* the 200 ms timer after a script load
UiScriptTimerFired(chain) ==
  /\ HasUi
  /\ chain \in ui.chains /\ chain.stage = "timer"
  /\ ui' = UiScriptTimer([ui EXCEPT !.inst = InstTask(@)], chain)
  /\ UNCHANGED <<embedding, scriptUrl, chat, ac, wl, env, srv, doc>>

\* the instance's fetches of /api/config and /api/chatbot-token settle
UiFetchSettled(outcome) ==
  /\ HasUi
  /\ ui.uiInstance /\ ui.inst.fetch = "pending"
  /\ ui' = [ui EXCEPT !.inst = InstFetchSettled(InstTask(@), outcome, env.server)]
  /\ UNCHANGED <<embedding, scriptUrl, chat, ac, wl, env, srv, doc>>

\* the instance's frame loads
UiIframeOnload ==
  /\ HasUi
  /\ ui.uiInstance /\ ui.inst.frameLoad = "pending"
  /\ ui' = [ui EXCEPT !.inst = InstIframeOnload(InstTask(@))]
  /\ UNCHANGED <<embedding, scriptUrl, chat, ac, wl, env, srv, doc>>

\* the instance's frame fails to load
UiIframeOnerror ==
  /\ HasUi
  /\ ui.uiInstance /\ ui.inst.frameLoad = "pending"
  /\ ui' = [ui EXCEPT !.inst = InstIframeOnerror(InstTask(@))]
  /\ UNCHANGED <<embedding, scriptUrl, chat, ac, wl, env, srv, doc>>

\* a retry timer of the instance fires
UiTimerFired(t) ==
  /\ HasUi
  /\ ui.uiInstance /\ t \in ui.inst.timers
  /\ ui' = [ui EXCEPT !.inst = InstTimerFired(InstTask(@), t)]
  /\ UNCHANGED <<embedding, scriptUrl, chat, ac, wl, env, srv, doc>>

\* a window "message" event, from any window of any origin
UiInboundMessage(origin, type) ==
  /\ HasUi
  /\ ui.uiInstance /\ ui.inst.listeners # <<>>
  /\ ui' = [ui EXCEPT !.inst = InstMessageHandler(InstTask(@), origin, type)]
  /\ UNCHANGED <<embedding, scriptUrl, chat, ac, wl, env, srv, doc>>

----------------------------------------------------------------------------
(* The tasks of the element *)

HasChat == embedding \in {"element", "widget"} /\ chat.exists

\* connectedCallback of an element written in the page
ElementConnected ==
  /\ embedding = "element"
  /\ ~chat.connected
  /\ chat' = ChatConnected(Task(chat))
  /\ UNCHANGED <<embedding, scriptUrl, ac, wl, env, ui, srv, doc>>

\* the values the host page gives an attribute; NULL is removeAttribute
AttrValues(name) ==
  CASE name = "theme" -> {"dark", NULL}
    [] name = "position" -> {"bottom-left", NULL}
    [] name = "language" -> {"fr", NULL}

\* the host page sets or removes the theme, position or language attribute
ElementSetAttribute(name, value) ==
  /\ embedding = "element"
  /\ env.attrs < MaxAttrChanges
  /\ chat' = ChatSetAttribute(Task(chat), name, value)
  /\ env' = [env EXCEPT !.attrs = @ + 1]
  /\ UNCHANGED <<embedding, scriptUrl, ac, wl, ui, srv, doc>>

\* a method called on the element by the host page, or a click on the launcher
\* (open) or on the minimize button (close)
HostCall(call) ==
  /\ embedding = "element"
  /\ \/ call \in Toggles
     \/ Len(env.made) < MaxCalls /\ call \in Commands(Len(env.made) + 1)
  /\ env' = [env EXCEPT !.made = IF call \in Toggles THEN @ ELSE Append(@, call.options)]
  /\ chat' = ChatCall(Task(chat), call)
  /\ UNCHANGED <<embedding, scriptUrl, ac, wl, ui, srv, doc>>

\* the answer of POST tokenApiUrl
TokenResponse(outcome) ==
  /\ HasChat
  /\ chat.fetch = "token"
  /\ chat' = ChatTokenResponse(Task(chat), outcome)
  /\ UNCHANGED <<embedding, scriptUrl, ac, wl, env, ui, srv, doc>>

\* the answer of GET /api/config; the fallback reads window.location
ConfigResponse(outcome) ==
  /\ HasChat
  /\ chat.fetch = "config"
  /\ chat' = ChatConfigResponse(Task(chat), outcome, env.server,
                                env.location.hostname, env.location.port)
  /\ UNCHANGED <<embedding, scriptUrl, ac, wl, env, ui, srv, doc>>

\* the frame's load event
IframeOnload ==
  /\ HasChat
  /\ chat.frameLoad = "pending"
  /\ chat' = ChatIframeOnload(Task(chat))
  /\ UNCHANGED <<embedding, scriptUrl, ac, wl, env, ui, srv, doc>>

\* the frame's error event
IframeOnerror ==
  /\ HasChat
  /\ chat.frameLoad = "pending"
  /\ chat' = ChatIframeOnerror(Task(chat))
  /\ UNCHANGED <<embedding, scriptUrl, ac, wl, env, ui, srv, doc>>

\* a window "message" event, from any window of any origin
InboundMessage(origin, type) ==
  /\ HasChat
  /\ chat.listening
  /\ env.inbound < MaxInbound
  /\ env' = [env EXCEPT !.inbound = @ + 1]
  /\ chat' = ChatMessageHandler(Task(chat), origin, type)
  /\ UNCHANGED <<embedding, scriptUrl, ac, wl, ui, srv, doc>>

\* the oldest 500 ms timer of setQuestion
TimerFired ==
  /\ HasChat
  /\ chat.timers # <<>>
  /\ chat' = ChatTimerFired(Task(chat))
  /\ UNCHANGED <<embedding, scriptUrl, ac, wl, env, ui, srv, doc>>

\* a FileReader finishes
ReaderLoaded(message) ==
  /\ HasChat
  /\ message \in chat.readers
  /\ chat' = ChatReaderLoaded(Task(chat), message)
  /\ UNCHANGED <<embedding, scriptUrl, ac, wl, env, ui, srv, doc>>

----------------------------------------------------------------------------
(* The example server (src/server.js, src/unnamed/part_001).                 *)
(* A string is a sequence of character codes; the characters of a key are    *)
(* the codes 1 to 9.                                                         *)

Space == 32
Dot == 46
Star == 42

\* String.prototype.trim
RECURSIVE TrimStart(_)
TrimStart(str) ==
  IF str # <<>> /\ Head(str) = Space THEN TrimStart(Tail(str)) ELSE str

RECURSIVE TrimEnd(_)
TrimEnd(str) ==
  IF str # <<>> /\ str[Len(str)] = Space THEN TrimEnd(SubSeq(str, 1, Len(str) - 1)) ELSE str

Trim(str) == TrimEnd(TrimStart(str))

\* apiKeyPrefix: the first 8 and the last 4 characters of a key longer than 12
ApiKeyPrefix(key) ==
  IF Len(key) > 12
    THEN SubSeq(key, 1, 8) \o <<Dot, Dot, Dot>> \o SubSeq(key, Len(key) - 3, Len(key))
    ELSE <<Star, Star, Star>>

\* the values of DOMAIN_CHATBOT_API_KEY: unset, short, padded with spaces, and
\* three long keys that differ in one character each
Keys ==
  { <<>>,
    <<1, 2, 3>>,
    <<Space, 1, 2, 3, Space>>,
    <<1, 2, 3, 4, 5, 6, 7, 8, 9, 1, 2, 3, 4>>,
    <<9, 2, 3, 4, 5, 6, 7, 8, 9, 1, 2, 3, 4>>,
    <<1, 2, 3, 4, 5, 6, 7, 8, 1, 1, 2, 3, 4>> }

Routes == {"/api/chatbot-token", "/api/widget/session", "/api/widget/message"}
WidgetRoutes == {"/api/widget/session", "/api/widget/message"}

\* what the upstream call gives: fetch throws, or an answer with a status and a
\* body that is a JSON document or not
StatusOk == 200
StatusUnauthorized == 401
StatusNotFound == 404
StatusError == 500
UpstreamStatuses == {StatusOk, StatusUnauthorized, StatusNotFound, StatusError}
UpstreamBodies == {[json |-> TRUE, text |-> "document"], [json |-> FALSE, text |-> "plain"]}
UpstreamThrows == [kind |-> "throw", status |-> 0, body |-> [json |-> FALSE, text |-> ""]]
UpstreamAnswers ==
  {UpstreamThrows} \cup
  { [kind |-> "answer", status |-> status, body |-> body] :
      status \in UpstreamStatuses, body \in UpstreamBodies }

\* no upstream call was made
UpstreamNone == [kind |-> "none", status |-> 0, body |-> [json |-> FALSE, text |-> ""]]

\* response.ok
Ok(answer) == answer.status >= 200 /\ answer.status <= 299

\* res.status(status).json(body): the fields a body does not have are NULL, an
\* absent key prefix is the empty string
Respond(status, error, details, hint, prefix, data) ==
  [ status |-> status, error |-> error, details |-> details, hint |-> hint,
    apiKeyPrefix |-> prefix, data |-> data ]

\* the catch block of the three handlers
InternalError == Respond(StatusError, "Internal server error", NULL, NULL, <<>>, NULL)

\* the token route answering 500 for every upstream failure
TokenHandler_HidesStatus(envKey, answer) ==
  IF envKey = <<>>
    THEN << Respond(StatusError, "Chatbot service not configured", NULL, "Get your API key", <<>>, NULL) >>
  ELSE IF answer.kind = "throw" \/ ~Ok(answer) \/ ~answer.body.json
    THEN << InternalError >>
  ELSE << Respond(StatusOk, NULL, NULL, NULL, <<>>, answer.body.text) >>

\* the responses POST /api/chatbot-token sends for a key and an upstream answer
TokenHandler(envKey, answer) ==
  IF envKey = <<>>
    THEN << Respond(StatusError, "Chatbot service not configured", NULL, "Get your API key", <<>>, NULL) >>
  ELSE IF answer.kind = "throw"
    THEN << InternalError >>
  ELSE IF ~Ok(answer)
    THEN << Respond(answer.status, "Failed to generate chatbot token", answer.body.text,
                    IF answer.status = StatusUnauthorized THEN "API key is invalid" ELSE "Verify your key",
                    ApiKeyPrefix(Trim(envKey)), NULL) >>
  ELSE IF ~answer.body.json
    THEN << InternalError >>
  ELSE << Respond(StatusOk, NULL, NULL, NULL, <<>>, answer.body.text) >>

\* the responses the two widget proxies send for an upstream answer
WidgetHandler(route, answer) ==
  IF answer.kind = "throw"
    THEN << InternalError >>
  ELSE IF ~Ok(answer)
    THEN IF answer.status = StatusNotFound
           THEN << Respond(StatusNotFound, "Widget endpoint not available", NULL, NULL, <<>>, NULL) >>
           ELSE << Respond(answer.status,
                           IF route = "/api/widget/session" THEN "Failed to create session"
                                                            ELSE "Failed to send message",
                           answer.body.text, NULL, <<>>, NULL) >>
  ELSE IF ~answer.body.json
    THEN << InternalError >>
  ELSE << Respond(StatusOk, NULL, NULL, NULL, <<>>, answer.body.text) >>

Handler(route, envKey, answer) ==
  IF route = "/api/chatbot-token" THEN TokenHandler(envKey, answer) ELSE WidgetHandler(route, answer)

\* a request arrives: the token route answers at once when no key is set, every
\* other request waits for its upstream call; calls is the number of upstream
\* fetches the handler made for the request
SrvRequest(route) ==
  /\ embedding = "server"
  /\ srv.made < MaxRequests
  /\ srv' = IF route = "/api/chatbot-token" /\ srv.key = <<>>
              THEN [srv EXCEPT !.made = @ + 1,
                               !.log = Append(@, [route |-> route, upstream |-> UpstreamNone,
                                                  calls |-> 0,
                                                  responses |-> TokenHandler(srv.key, UpstreamNone)])]
              ELSE [srv EXCEPT !.made = @ + 1,
                               !.pending = @ \cup {[id |-> srv.made + 1, route |-> route]}]
  /\ UNCHANGED <<embedding, scriptUrl, chat, ac, wl, ui, env, doc>>

\* the upstream call of a waiting request settles and the handler responds
SrvUpstreamSettled(request, answer) ==
  /\ embedding = "server"
  /\ request \in srv.pending
  /\ srv' = [srv EXCEPT !.pending = @ \ {request},
                        !.log = Append(@, [route |-> request.route, upstream |-> answer,
                                           calls |-> 1,
                                           responses |-> Handler(request.route, srv.key, answer)])]
  /\ UNCHANGED <<embedding, scriptUrl, chat, ac, wl, ui, env, doc>>

----------------------------------------------------------------------------
(* The start of the lazy loader script (src/unnamed/part_001), run once per  *)
(* script tag of the page. The id aventora-widget-root is 0, the id          *)
(* aventora-widget-root-n is n.                                              *)

\* the root ids an element of the host page may carry
HostIds == {0, 1, 2}

\* the while loop over document.getElementById(rootId)
RECURSIVE RootId(_, _)
RootId(ids, counter) == IF counter \in ids THEN RootId(ids, counter + 1) ELSE counter

\* one run of the script: it returns when the loader global exists or when the
\* tag has no tenant, else it mounts a root container and sets the global
DocLoaderRun(d, tenant) ==
  IF d.loader \/ tenant = ""
    THEN [d EXCEPT !.runs = Append(@, [tenant |-> tenant, before |-> d.ids,
                                        mounted |-> FALSE, id |-> 0])]
    ELSE [d EXCEPT !.ids = @ \cup {RootId(d.ids, 0)},
                   !.loader = TRUE,
                   !.runs = Append(@, [tenant |-> tenant, before |-> d.ids,
                                       mounted |-> TRUE, id |-> RootId(d.ids, 0)])]

\* a script tag of the loader runs
LoaderRun(tenant) ==
  /\ embedding = "scripts"
  /\ Len(doc.runs) < MaxRuns
  /\ doc' = DocLoaderRun(doc, tenant)
  /\ UNCHANGED <<embedding, scriptUrl, chat, ac, wl, ui, env, srv>>

\* the host page adds an element of its own that carries a root id
HostAppends(id) ==
  /\ embedding = "scripts"
  /\ id \notin doc.ids
  /\ doc' = [doc EXCEPT !.ids = @ \cup {id}]
  /\ UNCHANGED <<embedding, scriptUrl, chat, ac, wl, ui, env, srv>>

----------------------------------------------------------------------------
(* Specification *)

\* a page whose server and loader runs are not looked at
SrvAbsent == [key |-> <<>>, made |-> 0, pending |-> {}, log |-> <<>>]
DocAbsent == [ids |-> {}, loader |-> FALSE, runs |-> <<>>]

\* made: the options of the calls made so far, in call order; inbound: messages
\* delivered; server: the base URL the server is configured with
EnvInitial ==
  [made |-> <<>>, inbound |-> 0, server |-> UrlServer, attrs |-> 0, location |-> PageLocation]

Init ==
  /\ embedding = "element"
  /\ scriptUrl \in ExplicitUrls
  /\ chat = ChatConstruct(scriptUrl, Tenant)
  /\ ac = AcInitial
  /\ wl = WlInitial(EmptyUrl)
  /\ ui = UiAbsent
  /\ env = EnvInitial
  /\ srv = SrvAbsent
  /\ doc = DocAbsent

\* the tasks of the element, whoever created it
NextChat ==
  \/ \E outcome \in TokenOutcomes : TokenResponse(outcome)
  \/ \E outcome \in ConfigOutcomes : ConfigResponse(outcome)
  \/ IframeOnload
  \/ IframeOnerror
  \/ \E origin \in InboundOrigins, type \in InboundTypes : InboundMessage(origin, type)
  \/ TimerFired
  \/ \E message \in chat.readers : ReaderLoaded(message)

Next ==
  \/ ElementConnected
  \/ \E call \in Commands(Len(env.made) + 1) \cup Toggles : HostCall(call)
  \/ NextChat

\* a page with an <aventora-chat> element written in it
Spec == Init /\ [][Next]_vars

\* the hostnames and ports of the pages that embed the element
Hostnames ==
  { <<"localhost">>, Loopback, <<"app", "localhost">>, <<"mylocalhost", "com">>,
    <<"intranet">>, <<"shop", "com">>, <<"www", "shop", "com">> }
Ports == {"", "8080"}
Tenants == {Tenant, "acme"}

\* an element without chatbot-url, on a page of any of these locations
InitHosts ==
  /\ embedding = "element"
  /\ scriptUrl = EmptyUrl
  /\ \E tenant \in Tenants : chat = ChatConstruct(EmptyUrl, tenant)
  /\ ac = AcInitial
  /\ wl = WlInitial(EmptyUrl)
  /\ ui = UiAbsent
  /\ \E h \in Hostnames, p \in Ports :
       env = [EnvInitial EXCEPT !.location = [hostname |-> h, port |-> p]]
  /\ srv = SrvAbsent
  /\ doc = DocAbsent

NextHosts ==
  \/ ElementConnected
  \/ \E call \in Toggles : HostCall(call)
  \/ \E outcome \in TokenOutcomes : TokenResponse(outcome)
  \/ \E outcome \in ConfigOutcomes : ConfigResponse(outcome)
  \/ IframeOnload
  \/ IframeOnerror

SpecHosts == InitHosts /\ [][NextHosts]_vars

\* the commands that pass no options
PlainCommands(n) ==
  { call \in Commands(n) : call.options = [autoSend |-> "absent", file |-> "absent"] }

NextAttr ==
  \/ ElementConnected
  \/ \E call \in PlainCommands(Len(env.made) + 1) \cup Toggles : HostCall(call)
  \/ \E outcome \in TokenOutcomes : TokenResponse(outcome)
  \/ \E outcome \in ConfigOutcomes : ConfigResponse(outcome)
  \/ IframeOnload
  \/ IframeOnerror
  \/ \E origin \in InboundOrigins, type \in InboundTypes : InboundMessage(origin, type)
  \/ TimerFired
  \/ \E name \in {"theme", "position", "language"} : \E value \in AttrValues(name) :
       ElementSetAttribute(name, value)

\* a page whose script sends commands without options to the element and
\* changes the element's theme and position
SpecAttr == Init /\ [][NextAttr]_vars

InitWidget ==
  /\ embedding = "widget"
  /\ scriptUrl \in ExplicitUrls
  /\ chat = ChatAbsent
  /\ ac = AcInitial
  /\ wl = WlInitial(scriptUrl)
  /\ ui = UiAbsent
  /\ env = EnvInitial
  /\ srv = SrvAbsent
  /\ doc = DocAbsent

NextWidget ==
  \/ \E call \in Commands(Len(env.made) + 1) \cup Toggles : AcCall(call)
  \/ WlLoadComponent
  \/ \E url \in {UrlGood} : AcInit(url)
  \/ \E k \in DOMAIN wl.tags : \E defined \in BOOLEAN : WlScriptOnload(k, defined)
  \/ \E k \in DOMAIN wl.tags : WlScriptOnerror(k)
  \/ WlWhenDefined
  \/ WlFallbackTimer
  \/ \E outcome \in TokenOutcomes : TokenResponse(outcome)
  \/ \E outcome \in ConfigOutcomes : ConfigResponse(outcome)
  \/ IframeOnload
  \/ TimerFired
  \/ \E message \in chat.readers : ReaderLoaded(message)

\* a page with the widget.js loader; the frame's messages and load errors are
\* the element's business, explored by Spec
SpecWidget == InitWidget /\ [][NextWidget]_vars

InitUI ==
  /\ embedding = "uiloader"
  /\ scriptUrl \in {UrlGood}
  /\ chat = ChatAbsent
  /\ ac = AcInitial
  /\ wl = WlInitial(EmptyUrl)
  /\ ui = UiInitial(scriptUrl)
  /\ env \in {[EnvInitial EXCEPT !.server = u] : u \in {UrlServer, UrlBad}}
  /\ srv = SrvAbsent
  /\ doc = DocAbsent

NextUI ==
  \/ \E call \in UiCommands(Len(env.made) + 1) : UiHostCall(call)
  \/ UiLauncherClick
  \/ UiInstanceOpen
  \/ UiCloseClick
  \/ \E chain \in ui.chains, outcome \in LoaderConfigOutcomes : UiConfigResponse(chain, outcome)
  \/ \E chain \in ui.chains : UiScriptOnload(chain)
  \/ \E chain \in ui.chains : UiScriptOnerror(chain)
  \/ \E chain \in ui.chains : UiScriptTimerFired(chain)
  \/ \E outcome \in UiFetchOutcomes : UiFetchSettled(outcome)
  \/ UiIframeOnload
  \/ UiIframeOnerror
  \/ \E t \in ui.inst.timers : UiTimerFired(t)
  \/ \E origin \in {OriginServer, OriginEvil}, type \in {"status", "nonobject"} :
       UiInboundMessage(origin, type)

\* a page with the lazy loader of part_001
SpecUI == InitUI /\ [][NextUI]_vars

\* the same page, with a host script that calls open() and waitForInstance()
\* of window.AventoraWidgetLoader instead of the commands
NextLoader ==
  \/ UiLoaderOpen
  \/ UiLoaderWaitForInstance
  \/ UiLauncherClick
  \/ UiInstanceOpen
  \/ UiCloseClick
  \/ \E chain \in ui.chains, outcome \in LoaderConfigOutcomes : UiConfigResponse(chain, outcome)
  \/ \E chain \in ui.chains : UiScriptOnload(chain)
  \/ \E chain \in ui.chains : UiScriptOnerror(chain)
  \/ \E chain \in ui.chains : UiScriptTimerFired(chain)
  \/ \E outcome \in UiFetchOutcomes : UiFetchSettled(outcome)
  \/ UiIframeOnload
  \/ UiIframeOnerror

SpecLoader == InitUI /\ [][NextLoader]_vars

\* the same page when the token endpoint can also answer 2xx with a body that
\* holds no token
NextLoaderFetch ==
  \/ NextLoader
  \/ \E outcome \in UiFetchOutcomesAll : UiFetchSettled(outcome)

SpecLoaderFetch == InitUI /\ [][NextLoaderFetch]_vars

\* the chains the loader can have in flight
LoaderChains ==
  { Chain(call, stage) : call \in {InitCall, ClickCall, LoaderOpenCall, WaitCall},
                         stage \in {"config", "script", "timer"} }

\* the same page when every /api/config fetch and every script load settles,
\* with success or failure, and every 200 ms timer fires
SpecLoaderSettles ==
  /\ SpecLoader
  /\ \A chain \in LoaderChains :
       /\ WF_vars(\E outcome \in LoaderConfigOutcomes : UiConfigResponse(chain, outcome))
       /\ WF_vars(UiScriptOnload(chain) \/ UiScriptOnerror(chain))
       /\ WF_vars(UiScriptTimerFired(chain))

\* a page with an <aventora-chat> element, or a page with the lazy loader
SpecPage == (Init \/ InitUI) /\ [][Next \/ NextUI]_vars

\* the lazy loader on a script tag without data-chatbot-base-url
InitUINoUrl ==
  /\ embedding = "uiloader"
  /\ scriptUrl = EmptyUrl
  /\ chat = ChatAbsent
  /\ ac = AcInitial
  /\ wl = WlInitial(EmptyUrl)
  /\ ui = UiInitial(scriptUrl)
  /\ env \in {[EnvInitial EXCEPT !.server = u] : u \in {UrlServer, UrlBad}}
  /\ srv = SrvAbsent
  /\ doc = DocAbsent

InitWidgetUrl ==
  /\ embedding = "widget"
  /\ scriptUrl = EmptyUrl
  /\ chat = ChatAbsent
  /\ ac = AcInitial
  /\ wl = [WlInitial(scriptUrl) EXCEPT !.config.widgetUrl = CustomComponentUrl]
  /\ ui = UiAbsent
  /\ env = EnvInitial
  /\ srv = SrvAbsent
  /\ doc = DocAbsent

\* a page with the widget.js loader whose script tag sets data-widget-url
SpecWidgetUrl == InitWidgetUrl /\ [][NextWidget]_vars

\* a page with an element or with the lazy loader, no base URL configured on
\* the loader
SpecNoUrl == (Init \/ InitUINoUrl) /\ [][Next \/ NextUI]_vars

InitServer ==
  /\ embedding = "server"
  /\ scriptUrl = EmptyUrl
  /\ chat = ChatAbsent
  /\ ac = AcInitial
  /\ wl = WlInitial(EmptyUrl)
  /\ ui = UiAbsent
  /\ env = EnvInitial
  /\ srv \in {[SrvAbsent EXCEPT !.key = key] : key \in Keys}
  /\ doc = DocAbsent

NextServer ==
  \/ \E route \in Routes : SrvRequest(route)
  \/ \E request \in srv.pending : \E answer \in UpstreamAnswers :
       SrvUpstreamSettled(request, answer)

InitScripts ==
  /\ embedding = "scripts"
  /\ scriptUrl = EmptyUrl
  /\ chat = ChatAbsent
  /\ ac = AcInitial
  /\ wl = WlInitial(EmptyUrl)
  /\ ui = UiAbsent
  /\ env = EnvInitial
  /\ srv = SrvAbsent
  /\ doc = DocAbsent

NextScripts ==
  \/ \E tenant \in {Tenant, ""} : LoaderRun(tenant)
  \/ \E id \in HostIds : HostAppends(id)

\* a page with several script tags of the lazy loader
SpecScripts == InitScripts /\ [][NextScripts]_vars

\* the example server answering requests, its API key set before it starts
SpecServer == InitServer /\ [][NextServer]_vars

----------------------------------------------------------------------------
(* Properties of the element's bridge *)

\* the commands posted to the frame, in posting order (the first shape of each)
PostedCommands(c) == SelectSeq(c.posted, LAMBDA m : m.type = "chatbot_message")

\* how many entries of a sequence of messages carry the text t
Count(t, msgs) == Cardinality({i \in DOMAIN msgs : msgs[i].text = t})

\* the command t still waits for its 500 ms timer or for its FileReader
InFlight(c, t) ==
  \/ \E i \in DOMAIN c.timers : c.timers[i].text = t
  \/ \E m \in c.readers : m.text = t

ReadyTypes == {"chatbot_ready", "flutter_ready"}

\* C1: every sendMessage/setQuestion command called while the frame is not ready
\* stays in the pending queue until the frame is ready, is never lost (it is
\* waiting for its timer or reader, or is exactly once in the queue or among the
\* posted commands), and the posted ones are in call order.
C1_EarlyCommandsDelivered ==
  /\ ~chat.iframeReady =>
       \A t \in chat.early : Count(t, PostedCommands(chat)) = 0
  /\ \A t \in chat.early :
       \/ InFlight(chat, t)
       \/ Count(t, chat.pendingMessages) + Count(t, PostedCommands(chat)) = 1
  /\ LET p == PostedCommands(chat)
     IN \A i, j \in DOMAIN p :
          (i < j /\ p[i].text \in chat.early /\ p[j].text \in chat.early)
            => p[i].text < p[j].text

\* C2: the queue is flushed to the frame at most once, no command is posted to
\* the frame twice, and once the frame has loaded the queue is empty: a second
\* ready signal finds nothing to flush.
C2_FlushedOnce ==
  /\ chat.flushes <= 1
  /\ LET p == PostedCommands(chat)
     IN \A i, j \in DOMAIN p : i # j => p[i].text # p[j].text
  /\ chat.frameLoad = "loaded" => chat.pendingMessages = <<>>

\* the frame has loaded and flushed queued commands, and this task has handled a
\* ready message as the second signal
C2_BothSignals ==
  /\ chat.frameLoad = "loaded"
  /\ chat.handledNow.type \in ReadyTypes
  /\ chat.flushes = 1
  /\ chat.early # {}
  /\ PostedCommands(chat) # <<>>

\* the element shows its error state (token request failed, frame load failed)
Failed(c) == c.error # NULL

\* C5: in a failed state the pending queue stops growing.
C5_FailedQueueStopsGrowing ==
  [][Failed(chat) => Len(chat'.pendingMessages) <= Len(chat.pendingMessages)]_vars

----------------------------------------------------------------------------
(* Properties of the lazy loader and of both bridges *)

\* the command n waits in a chain of the loader or for its retry
UiWaiting(n) ==
  \/ \E c \in ui.chains : c.call.text = n
  \/ \E t \in ui.inst.timers : t.text = n

\* C4: no command called on window.AventoraWidgetLoader is dropped: once the
\* frame has loaded, every command that is not still waiting has been posted.
C4_LoaderCommandsNotDropped ==
  (ui.uiInstance /\ ui.inst.frameLoad = "loaded") =>
    \A n \in 1..Len(env.made) :
      UiWaiting(n) \/ \E m \in ui.inst.posted : m.text = n

\* every message posted to a frame of the page
AllPosted == {chat.posted[k] : k \in DOMAIN chat.posted} \cup ui.inst.posted

\* every message on a bridge of the page: posted, or in the element's queue
AllBridge == AllPosted \cup {chat.pendingMessages[k] : k \in DOMAIN chat.pendingMessages}

\* C6: every posted shape of a command carries autoSend = true exactly when the
\* caller passed autoSend true.
C6_AutoSendAsPassed ==
  \A m \in AllPosted : (m.autoSend = "true") <=> (env.made[m.text].autoSend = "true")

\* a command passed with autoSend true and one passed without it were posted
C6_BothPosted ==
  \E m1, m2 \in AllPosted :
    /\ m1.autoSend = "true" /\ env.made[m1.text].autoSend = "true"
    /\ m2.autoSend = "false" /\ env.made[m2.text].autoSend # "true"

\* C7: no message on a bridge carries a File object, and the message of a
\* command called with a File carries the encoded data URL; for sendMessage,
\* setQuestion and setFile.
C7_FileEncodedBeforeBridge ==
  \A m \in AllBridge :
    /\ m.file # "File"
    /\ env.made[m.text].file = "File" => m.file = "dataURL"

\* C8: a message is handled only when its origin is the instance's resolved
\* remote origin, at every moment of the instance's life; any origin is accepted
\* only when the resolved base URL does not parse.
C8_HandlesOnlyResolvedOrigin ==
  /\ chat.handledNow # NoMessage =>
       \/ chat.iframe # NULL /\ chat.handledNow.origin = UrlOrigin(chat.iframeSrc.base)
       \/ chat.iframe # NULL /\ ~Parsable(chat.iframeSrc.base)
  /\ ui.inst.handledNow # NoMessage =>
       \/ ui.inst.iframe # NULL /\ ui.inst.handledNow.origin = UrlOrigin(ui.inst.chatbotBaseUrl)
       \/ ui.inst.iframe # NULL /\ ~Parsable(ui.inst.chatbotBaseUrl)

\* C9: every message posted to a frame has as target the origin parsed from the
\* resolved base URL, and the wildcard only when that URL does not parse.
C9_TargetIsResolvedOrigin ==
  /\ \A k \in DOMAIN chat.posted :
       /\ Parsable(chat.iframeSrc.base) => chat.posted[k].target = UrlOrigin(chat.iframeSrc.base)
       /\ chat.posted[k].target = Wildcard => ~Parsable(chat.iframeSrc.base)
  /\ \A m \in ui.inst.posted :
       /\ Parsable(ui.inst.chatbotBaseUrl) => m.target = UrlOrigin(ui.inst.chatbotBaseUrl)
       /\ m.target = Wildcard => ~Parsable(ui.inst.chatbotBaseUrl)

\* the instance has posted a command to the origin of the server's base URL
C9_PostedToOrigin ==
  \E m \in ui.inst.posted :
    /\ m.target = OriginServer
    /\ ui.inst.chatbotBaseUrl = UrlServer

----------------------------------------------------------------------------
(* Properties of loading and of failures *)

\* the answers of /api/config that are failures: a body without a base URL, a
\* non-2xx status, a rejected fetch, a malformed body
ConfigFailures == ConfigOutcomes \ {"okUrl"}

\* C11: with no base URL configured, a failed /api/config request still ends
\* with a frame loaded from the fallback URL and never with an error state.
C11_ConfigFailureFallsBack ==
  [][ /\ \A outcome \in ConfigFailures :
           (scriptUrl = EmptyUrl /\ ConfigResponse(outcome)) =>
             /\ chat'.iframe # NULL
             /\ chat'.iframeSrc.base = FallbackUrl(env.location.hostname, env.location.port, Tenant)
             /\ chat'.error = NULL /\ chat'.container = "iframe"
      /\ (scriptUrl = EmptyUrl /\ UiFetchSettled("noUrl")) =>
           /\ ui'.inst.iframe # NULL
           /\ ui'.inst.container = "iframe" ]_vars

\* C12: a non-2xx token response puts the message of its body (a generic one
\* for an unparsable body) into the panel and creates no frame; a frame exists
\* only with a token.
C12_TokenErrorShown ==
  [][ /\ \A outcome \in {"errorBody", "errorNoBody"} :
           TokenResponse(outcome) =>
             /\ chat'.error = TokenErrorMessage(outcome)
             /\ chat'.container = "error"
             /\ chat'.iframe = NULL
      /\ UiFetchSettled("tokenFail") =>
           /\ ui'.inst.container = "error"
           /\ ui'.inst.errorText = TokenErrorMessage("errorBody")
           /\ ui'.inst.iframe = ui.inst.iframe
      /\ chat'.iframe # NULL => chat'.token # NULL
      /\ ui'.inst.iframe # NULL => ui'.inst.token # NULL ]_vars

\* C13: after a failed load the launcher stays usable and the next open()
\* starts a new load attempt: an open() of a failed element requests a token
\* again, and the loader never hides its launcher behind an error panel.
C13_OpenRetriesAfterFailure ==
  [][ /\ \A call \in Toggles :
           (call.method = "open" /\ Failed(chat) /\ HostCall(call)) =>
             chat'.fetch = "token"
      /\ ~ui'.loaderError ]_vars

\* open() of the element, as the host page calls it
OpenCall == CHOOSE call \in Toggles : call.method = "open"

\* C14 as stated: open() on a widget that is already open changes nothing and
\* starts no load.
C14_OpenIdempotent ==
  [][ /\ (chat.isOpen /\ HostCall(OpenCall)) => chat' = Task(chat)
      /\ (ui.inst.isOpen /\ UiInstanceOpen) => ui'.inst = InstTask(ui.inst) ]_vars

\* C14: open() on a widget that is already open, and whose frame is loaded or
\* loading, changes nothing and starts no load; the element's open() never
\* starts a load.
C14_OpenIdempotentWhenLoading ==
  [][ /\ (chat.isOpen /\ HostCall(OpenCall)) => chat' = Task(chat)
      /\ (/\ ui.inst.isOpen
          /\ ui.inst.flutterAppLoaded \/ ui.inst.isLoading
          /\ UiInstanceOpen) => ui'.inst = InstTask(ui.inst) ]_vars

\* the instance is open with its frame loaded and no load in flight
C14_OpenAndLoaded ==
  /\ ui.uiInstance /\ ui.inst.isOpen
  /\ ui.inst.flutterAppLoaded /\ ui.inst.frameLoad = "loaded"
  /\ ~ui.inst.isLoading /\ ui.inst.fetch = "idle"
  /\ ENABLED UiInstanceOpen

\* close() of the element, as the host page calls it
CloseCall == CHOOSE call \in Toggles : call.method = "close"

\* C15: close() changes only the visibility flags, keeping the frame, the token,
\* the origin, the loaded flag and the queue; open() on a loaded widget changes
\* only the visibility flags too, with no token request and no frame load.
C15_CloseOnlyHides ==
  [][ /\ HostCall(CloseCall) =>
           chat' = [Task(chat) EXCEPT !.isOpen = FALSE, !.isMinimized = TRUE,
                                      !.panelShown = FALSE, !.launcherShown = TRUE]
      /\ HostCall(OpenCall) =>
           chat' = [Task(chat) EXCEPT !.isOpen = TRUE, !.isMinimized = FALSE,
                                      !.panelShown = TRUE, !.launcherShown = FALSE]
      /\ UiCloseClick =>
           ui'.inst = [InstTask(ui.inst) EXCEPT !.isOpen = FALSE, !.panelOpen = FALSE,
                                                !.launcherShown = TRUE]
      /\ (ui.uiInstance /\ ui.inst.flutterAppLoaded /\ (UiLauncherClick \/ UiInstanceOpen)) =>
           ui'.inst = [InstTask(ui.inst) EXCEPT !.isOpen = TRUE, !.panelOpen = TRUE,
                                                !.launcherShown = FALSE] ]_vars

\* the instance is closed and still holds its loaded frame and token
C15_ClosedWithSession ==
  /\ ui.uiInstance /\ ~ui.inst.isOpen
  /\ ui.inst.flutterAppLoaded /\ ui.inst.frameLoad = "loaded"
  /\ ui.inst.iframe # NULL /\ ui.inst.token # NULL
  /\ ENABLED UiLauncherClick

\* C16: a change of the theme or position attribute changes the attribute, its
\* configuration entry and the styles, and nothing else of the element: not the
\* frame, the token, the ready flag, the queue, the open state, nor the counts of
\* token requests and frame loads.
C16_AttributeChangeOnlyStyles ==
  [][ \A name \in {"theme", "position"} : \A value \in AttrValues(name) :
        ElementSetAttribute(name, value) =>
          /\ chat' = [Task(chat) EXCEPT !.attrs = chat'.attrs,
                                        !.config = chat'.config,
                                        !.styles = chat'.styles]
          /\ chat'.config.tenant = chat.config.tenant
          /\ chat'.config.chatbotUrl = chat.config.chatbotUrl ]_vars

\* the position was changed on an element that holds a token and a loaded frame
C16_RestyledWithFrame ==
  /\ env.attrs > 0
  /\ chat.attrs.position = "bottom-left" /\ chat.styles = "bottom-left"
  /\ chat.token # NULL /\ chat.iframe # NULL /\ chat.frameLoad = "loaded"

\* C20: every open(), close() and sendMessage() call that succeeds dispatches
\* exactly one host-page event, in the element and in the UI instance, with or
\* without a File.
C20_OneEventPerCall ==
  [][ /\ \A call \in Commands(Len(env.made) + 1) \cup Toggles :
           (call.method \in {"open", "close", "sendMessage"} /\ HostCall(call)) =>
             Len(ChatEvents(chat, call)) = 1
      /\ (UiInstanceOpen \/ (ui.uiInstance /\ UiLauncherClick)) =>
           Len(InstEvents(ui.inst, "open")) = 1
      /\ UiCloseClick => Len(InstEvents(ui.inst, "close")) = 1
      /\ \A call \in UiCommands(Len(env.made) + 1) :
           (/\ call.method = "sendMessage"
            /\ ui.uiInstance /\ ui.inst.sendToFlutter
            /\ UiHostCall(call)) =>
             Len(InstEvents(ui.inst, call.method)) = 1 ]_vars

\* C21: a command method of the UI instance, called on the instance in any state
\* it can be in, returns true exactly when the call posts the command's messages
\* to the frame.
C21_TrueOnlyIfPosted ==
  ui.uiInstance =>
    \A call \in UiCommands(Len(env.made) + 1) :
      InstReturns(ui.inst, call) <=> (InstCall(ui.inst, call).posted # ui.inst.posted)

\* C22: no console line written when a frame is created carries the token.
C22_TokenNotLogged ==
  [][ /\ (chat.frameLoad # "pending" /\ chat'.frameLoad = "pending") =>
           \A k \in 1..2 :
             ChatCreateIframeLog(chat', chat'.iframeSrc.base)[k].value.token = NULL
      /\ (ui.inst.frameLoad # "pending" /\ ui'.inst.frameLoad = "pending") =>
           \A k \in 1..2 :
             InstLoadFlutterAppViaIframeLog(ui'.inst.chatbotBaseUrl,
                                            ui'.inst.token)[k].value.token = NULL ]_vars

\* the events of a sequence that are aventora:error
ErrorEvents(events) == { k \in 1..Len(events) : events[k] = "aventora:error" }

\* C23: the task in which the element hits a token failure or a frame load
\* error dispatches an aventora:error event.
C23_ErrorEventDispatched ==
  [][ /\ \A outcome \in TokenOutcomes :
           (TokenResponse(outcome) /\ chat'.error # NULL) =>
             ErrorEvents(ChatHandlerEvents("fetchToken.catch")) # {}
      /\ IframeOnerror => ErrorEvents(ChatHandlerEvents("iframe.onerror")) # {} ]_vars

\* C24: the loader creates at most one element and appends at most one
\* component script tag.
C24_OneElementOneScript ==
  /\ wl.created <= 1
  /\ Len(wl.tags) <= 1

\* C25: no task discards a queued command: a command in the pending queue
\* before the task is, after it, still in the queue or posted to the frame.
C25_FlushKeepsOrPosts ==
  [][ \A k \in 1..Len(chat.pendingMessages) :
        \/ \E j \in 1..Len(chat'.pendingMessages) :
             chat'.pendingMessages[j] = chat.pendingMessages[k]
        \/ \E j \in 1..Len(chat'.posted) :
             chat'.posted[j].text = chat.pendingMessages[k].text ]_vars

\* C26: a task posts a command to the frame only if the bridge is ready when
\* the task ends: the element's ready flag is set, the instance's frame has
\* fired its load event.
C26_NothingPostedBeforeReady ==
  [][ /\ Len(chat'.posted) > Len(chat.posted) => chat'.iframeReady
      /\ ui'.inst.posted # ui.inst.posted => ui'.inst.frameLoad = "loaded" ]_vars

\* C27: at the end of every task, if the ready flag is set and the frame has a
\* window then the pending queue is empty.
C27_ReadyMeansDrained ==
  (chat.iframeReady /\ HasContentWindow(chat)) => chat.pendingMessages = <<>>

\* C28: the element posts commands in call order: no message of a later call
\* is posted before a message of an earlier call (text is the call's number).
C28_PostedInCallOrder ==
  \A i, j \in 1..Len(chat.posted) :
    i < j => chat.posted[i].text <= chat.posted[j].text

\* C29: the UI instance has at most one message listener registered, so that
\* no inbound message is republished by more than one listener.
C29_OneListener ==
  /\ Len(ui.inst.listeners) <= 1
  /\ \A origin \in InboundOrigins :
       Cardinality({ k \in DOMAIN ui.inst.listeners :
                      ui.inst.listeners[k] = Wildcard \/ ui.inst.listeners[k] = origin }) <= 1

\* C30: a task of the UI loader never ends with two load attempts of the
\* instance in progress (the requests of one and the frame load of another),
\* and once the frame has loaded no task starts a request or touches the frame.
C30_OneLoadAtATime ==
  [][ /\ ~(ui'.inst.fetch = "pending" /\ ui'.inst.frameLoad = "pending")
      /\ ui'.inst.fetch = "pending" => ui'.inst.isLoading
      /\ ui.inst.flutterAppLoaded =>
           /\ ui'.inst.flutterAppLoaded
           /\ ui'.inst.fetch = "idle"
           /\ ui'.inst.iframe = ui.inst.iframe
           /\ ui'.inst.token = ui.inst.token
           /\ ui'.inst.frameLoad = "loaded" ]_vars

\* the panel was closed while the frame was loading: the launcher can be
\* clicked again during the load
C30_ClosedWhileLoading ==
  /\ ui.uiInstance /\ ~ui.inst.isOpen
  /\ ui.inst.isLoading /\ ui.inst.frameLoad = "pending"
  /\ ENABLED UiLauncherClick


\* C31: the loader constructs at most one UI instance per page (one rendering of
\* the panel, one keydown handler), however many chains have entered loadUI
\* before the first one finished.
C31_OneInstance ==
  /\ ui.created <= 1
  /\ ui.uiInstance <=> ui.created = 1

\* the instance exists while the script tag or the timer of another loadUI call
\* is still waiting to call initializeUI
C31_InstanceAndLateChain ==
  /\ ui.created = 1
  /\ \E c \in ui.chains : c.stage \in {"script", "timer"}


\* C32: a promise returned by AventoraWidgetLoader.open() or waitForInstance()
\* is resolved only with the initialized instance, never with null.
C32_ResolvedWithInstance ==
  \A r \in ui.resolved : r[2] = "instance"


\* the click handler of the launcher is waiting for the config or the UI
ClickWaiting == \E c \in ui.chains : c.call = ClickCall

C34_OneVisibleAndFlagAgrees ==
  /\ HasChat =>
       /\ chat.launcherShown # chat.panelShown
       /\ chat.isOpen <=> chat.panelShown
       /\ chat.isMinimized <=> ~chat.isOpen
  /\ HasUi =>
       /\ ui.inst.launcherShown # ui.inst.panelOpen
       /\ ui.uiInstance => (ui.inst.isOpen <=> ui.inst.panelOpen)


\* C35: a token request or a base URL request is started only by a task in or
\* after which the widget is open, never before the first open(); a token once
\* obtained is kept.
C35_CredentialOnFirstOpen ==
  [][ /\ chat'.tokenRequests > chat.tokenRequests => (chat.isOpen \/ chat'.isOpen)
      /\ chat'.configRequests > chat.configRequests => (chat.isOpen \/ chat'.isOpen)
      /\ (ui.inst.fetch # "pending" /\ ui'.inst.fetch = "pending") =>
           (ui.inst.isOpen \/ ui'.inst.isOpen)
      /\ chat.token # NULL => chat'.token = chat.token
      /\ (ui.uiInstance /\ ui.inst.token # NULL) => ui'.inst.token = ui.inst.token ]_vars


\* a token of a token response
HasToken(token) == token \notin {NULL, UNDEFINED}

\* the language given by the element's attribute, en without one
ConfiguredLanguage(c) == IF c.attrs.language = NULL THEN "en" ELSE c.attrs.language

\* C36: a step that creates the remote frame has a token and a base URL, and the
\* frame's URL carries that base, the escaped token of the token response and
\* the configured language (en by default).
C36_FrameUrl ==
  [][ /\ (chat.iframe = NULL /\ chat'.iframe # NULL) =>
           /\ HasToken(chat'.token)
           /\ chat'.iframeSrc.base # EmptyUrl
           /\ chat'.iframeSrc.token = EncodeURIComponent(TokenValue)
           /\ chat'.iframeSrc.lang = ConfiguredLanguage(chat')
      /\ (ui.inst.frameLoad # "pending" /\ ui'.inst.frameLoad = "pending") =>
           /\ HasToken(ui'.inst.token)
           /\ ui'.inst.iframeSrc.base # EmptyUrl
           /\ ui'.inst.iframeSrc.token = EncodeURIComponent(TokenValue)
           /\ ui'.inst.iframeSrc.lang = "en" ]_vars


\* the port of the development URL
DevPort == IF env.location.port = "" THEN "3000" ELSE env.location.port

\* C37 as stated: without an explicit base URL and a usable /api/config answer,
\* the base URL is https://<tenant>.<last two labels> for a host of two labels
\* or more and https://<tenant>.aventora.app for a host of fewer.
C37_FallbackFromHostAndTenant ==
  [][ \A outcome \in ConfigFailures :
        (scriptUrl = EmptyUrl /\ ConfigResponse(outcome)) =>
          LET h == env.location.hostname
              t == chat.config.tenant
          IN /\ chat'.iframeSrc.base.scheme = "https"
             /\ chat'.iframeSrc.base.port = ""
             /\ chat'.iframeSrc.base.host =
                  IF Len(h) >= 2 THEN <<t, h[Len(h) - 1], h[Len(h)]>>
                  ELSE <<t, "aventora", "app">> ]_vars

\* C37: the same rule for hosts that contain neither 'localhost' nor
\* '127.0.0.1'; for those that do, the base URL is http://localhost:<port> when
\* the host is exactly localhost or 127.0.0.1 and http://<tenant>.localhost:<port>
\* otherwise, the port being the page's port, 3000 without one.
C37_FallbackFromLocation ==
  [][ \A outcome \in ConfigFailures :
        (scriptUrl = EmptyUrl /\ ConfigResponse(outcome)) =>
          LET h == env.location.hostname
              t == chat.config.tenant
              b == chat'.iframeSrc.base
              local == \/ \E i \in DOMAIN h : h[i] \in {"localhost", "mylocalhost"}
                       \/ h = <<"127", "0", "0", "1">>
          IN /\ b.path = ""
             /\ (local /\ Len(h) \in {1, 4}) =>
                  b.scheme = "http" /\ b.host = <<"localhost">> /\ b.port = DevPort
             /\ (local /\ Len(h) = 2) =>
                  b.scheme = "http" /\ b.host = <<t, "localhost">> /\ b.port = DevPort
             /\ (~local /\ Len(h) >= 2) =>
                  b.scheme = "https" /\ b.host = <<t, h[Len(h) - 1], h[Len(h)]>> /\ b.port = ""
             /\ (~local /\ Len(h) < 2) =>
                  b.scheme = "https" /\ b.host = <<t, "aventora", "app">> /\ b.port = "" ]_vars

\* a frame was created from the development URL on a localhost page after a
\* failed /api/config request
C37_LocalhostFrame ==
  /\ env.location.hostname = <<"localhost">>
  /\ chat.configRequests = 1
  /\ chat.iframe # NULL
  /\ chat.iframeSrc.base.host = <<"localhost">>
  /\ chat.iframeSrc.base.scheme = "http"


\* the alias shapes of one command
AliasTypes == {"chatbot_message", "send_message", "set_question", "openChatbot"}

\* C38: every message posted to the frame is one of the four alias shapes, and
\* the other three shapes with the same text, autoSend flag, file and target
\* are posted too.
C38_AllAliasesPosted ==
  /\ \A k \in DOMAIN chat.posted :
       /\ chat.posted[k].type \in AliasTypes
       /\ \A t \in AliasTypes :
            \E j \in DOMAIN chat.posted : chat.posted[j] = [chat.posted[k] EXCEPT !.type = t]
  /\ \A m \in ui.inst.posted :
       /\ m.type \in AliasTypes
       /\ \A t \in AliasTypes : [m EXCEPT !.type = t] \in ui.inst.posted

----------------------------------------------------------------------------
(* Properties of the example server *)

\* the keys that are set
ConfiguredKeys == Keys \ {<<>>}

\* the logged requests of one route set
Answered(routes) == { n \in 1..Len(srv.log) : srv.log[n].route \in routes }

\* C17: a token request that made its upstream call is answered the same
\* whatever key is configured: every other configured key gives, for the same
\* upstream answer, the same response.
C17_ResponseIndependentOfKey ==
  \A n \in Answered({"/api/chatbot-token"}) :
    srv.log[n].upstream.kind # "none" =>
      \A key \in ConfiguredKeys :
        TokenHandler(key, srv.log[n].upstream) = srv.log[n].responses

\* C18: a widget proxy request gets one response: 404 for an upstream 404, the
\* upstream status for any other non-2xx status, the upstream body for a 2xx
\* answer, 500 when the upstream call threw.
C18_ProxyStatusMapping ==
  \A n \in Answered(WidgetRoutes) :
    LET answer == srv.log[n].upstream
        responses == srv.log[n].responses
    IN /\ Len(responses) = 1
       /\ answer.kind = "throw" => responses[1].status = StatusError
       /\ (answer.kind = "answer" /\ ~Ok(answer)) => responses[1].status = answer.status
       /\ (answer.kind = "answer" /\ Ok(answer)) =>
            /\ responses[1].status = StatusOk
            /\ responses[1].data = answer.body.text


\* C39 as stated: a token request gets one response after at most one upstream
\* call: 500 and no call without a key, the upstream status and an error for a
\* non-2xx answer, 500 when the call threw, and otherwise 200 with the data of
\* the upstream answer.
C39_TokenRouteResponses ==
  \A n \in Answered({"/api/chatbot-token"}) :
    LET answer == srv.log[n].upstream
        responses == srv.log[n].responses
    IN /\ Len(responses) = 1
       /\ srv.log[n].calls <= 1
       /\ srv.key = <<>> => (srv.log[n].calls = 0 /\ responses[1].status = StatusError)
       /\ answer.kind = "throw" => responses[1].status = StatusError
       /\ (answer.kind = "answer" /\ ~Ok(answer)) =>
            (responses[1].status = answer.status /\ responses[1].error # NULL)
       /\ (answer.kind = "answer" /\ Ok(answer)) =>
            (responses[1].status = StatusOk /\ responses[1].data = answer.body.text)

\* C39: the same, where a 2xx upstream answer gives 200 with its data when its
\* body is a JSON document and 500 when it is not.
C39_TokenRouteResponsesJson ==
  \A n \in Answered({"/api/chatbot-token"}) :
    LET answer == srv.log[n].upstream
        responses == srv.log[n].responses
    IN /\ Len(responses) = 1
       /\ srv.log[n].calls <= 1
       /\ srv.key = <<>> => (srv.log[n].calls = 0 /\ responses[1].status = StatusError)
       /\ answer.kind = "throw" => responses[1].status = StatusError
       /\ (answer.kind = "answer" /\ ~Ok(answer)) =>
            (responses[1].status = answer.status /\ responses[1].error # NULL)
       /\ (answer.kind = "answer" /\ Ok(answer) /\ answer.body.json) =>
            (responses[1].status = StatusOk /\ responses[1].data = answer.body.text)
       /\ (answer.kind = "answer" /\ Ok(answer) /\ ~answer.body.json) =>
            (responses[1].status = StatusError /\ responses[1].data = NULL)

\* two token requests were answered with a key set: one from a non-2xx upstream
\* answer, one from a 2xx answer whose body is not JSON
C39_FailureAndMalformed ==
  /\ srv.key # <<>>
  /\ \E n \in Answered({"/api/chatbot-token"}) :
       srv.log[n].upstream.kind = "answer" /\ ~Ok(srv.log[n].upstream)
  /\ \E n \in Answered({"/api/chatbot-token"}) :
       /\ srv.log[n].upstream.kind = "answer" /\ Ok(srv.log[n].upstream)
       /\ ~srv.log[n].upstream.body.json

----------------------------------------------------------------------------
(* Properties of the loader's start *)

\* C19: every run of the loader script whose tag names a tenant mounts a root
\* container, under an id no element of the document had before the run, so
\* that the containers of two runs have two ids.
C19_EachRunMountsFreshRoot ==
  \A n \in 1..Len(doc.runs) :
    doc.runs[n].tenant # "" =>
      /\ doc.runs[n].mounted
      /\ doc.runs[n].id \notin doc.runs[n].before
      /\ \A m \in 1..(n - 1) :
           doc.runs[m].tenant # "" => doc.runs[m].id # doc.runs[n].id

----------------------------------------------------------------------------
(* Properties of the widget.js loader *)

\* in how many places of the element the command t is: waiting for its timer or
\* its reader, in the pending queue, or posted
Occurrences(c, t) ==
  Count(t, c.timers) + Cardinality({m \in c.readers : m.text = t})
    + Count(t, c.pendingMessages) + Count(t, PostedCommands(c))

\* C3: before the element exists every call is queued; createWidget replays the
\* queue on the element once, in call order, and leaves it empty; afterwards
\* calls go to the element and the queue stays empty.
C3_QueueReplayedOnce ==
  /\ [](~ac.instance =>
          /\ ac.replayed = <<>>
          /\ Texts(ac.queue) = ac.queued
          /\ Len(ac.queued) = Len(env.made))
  /\ [](ac.instance =>
          /\ ac.queue = <<>>
          /\ ac.replayed = ac.queued
          /\ \A i \in DOMAIN ac.queued :
               ac.queued[i].text > 0 => Occurrences(chat, ac.queued[i].text) = 1)
  /\ [][ac.instance => ac'.queue = <<>> /\ ac'.queued = ac.queued]_vars

\* two commands were queued and createWidget has replayed them
C3_TwoReplayed ==
  /\ ac.instance /\ ac.ready
  /\ Len(ac.replayed) = 2
  /\ ac.replayed[1].text = 1 /\ ac.replayed[2].text = 2
  /\ ac.queue = <<>>

\* the base URL the page configured explicitly: the element's chatbot-url
\* attribute, or the loader's config (data-chatbot-url, init) at createWidget
ExplicitUrl == IF embedding = "widget" THEN wl.createdWith ELSE scriptUrl

\* C10: with an explicitly configured base URL the element never asks
\* /api/config and loads the frame from exactly that URL.
C10_ExplicitUrlUsedVerbatim ==
  (chat.exists /\ ExplicitUrl # EmptyUrl) =>
    /\ chat.configRequests = 0
    /\ chat.iframe # NULL => chat.iframeSrc.base = ExplicitUrl

====
